---- MODULE Spec2Model ----
(***************************************************************************)
(* A model of the workflow engine: the graph (app/core/graph.py), its      *)
(* nodes (app/core/node.py), the run record (app/models/state.py) and the  *)
(* execution engine (app/core/engine.py).                                  *)
(*                                                                         *)
(* Python values are tagged records: None, integers, strings and lists of  *)
(* integers.  A conversion or comparison that raises in Python yields the  *)
(* string "raise" here, and the callers treat it as the code does.         *)
(***************************************************************************)
EXTENDS Integers, Sequences, FiniteSets, TLC

(***************************************************************************)
(* Bounds of the model.                                                    *)
(***************************************************************************)
\* number of runs executed, one after another, on the same Graph object
MaxRuns == 2
\* cap on the node executions of one run (a cycle without a loop
\* declaration never ends by itself)
MaxSteps == 5
\* the max_iterations values of loop declarations are 1..MaxIter
MaxIter == 2
\* the "flaky" tool raises at most MaxFailures times in a behaviour
MaxFailures == 1
\* a graph definition with loops declares at most MaxEdges edges
MaxEdges == 2
\* a graph definition with conditional edges declares at most MaxGuarded edges
MaxGuarded == 3
\* number of calls made on a Graph under construction, and of create_graph
\* requests
MaxCalls == 5

(***************************************************************************)
(* Python values.                                                          *)
(***************************************************************************)
PyNone == [t |-> "none", n |-> 0, s |-> {}]
PyInt(i) == [t |-> "int", n |-> i, s |-> {}]
PyStr == [t |-> "str", n |-> 0, s |-> {}]
PyList(S) == [t |-> "list", n |-> 0, s |-> S]
\* a reference to the list object a run holds in its state data; the
\* contents of the object are in the variable heap
PyListRef == [t |-> "ref", n |-> 0, s |-> {}]
\* a key that is not in a dict
Absent == [t |-> "absent", n |-> 0, s |-> {}]

Keys == {"count", "flag"}

EmptyData == [k \in Keys |-> Absent]

\* WorkflowState.get(key): dict.get with default None
StateGet(state, key) ==
    IF state.data[key] = Absent THEN PyNone ELSE state.data[key]

\* an update that replaces the data by the updates
StateUpdate_replace(state, updates) == [state EXCEPT !.data = updates]

\* WorkflowState.update(updates): dict.update, key by key
StateUpdate(state, updates) ==
    [state EXCEPT !.data =
        [k \in Keys |-> IF updates[k] = Absent THEN state.data[k] ELSE updates[k]]]

(***************************************************************************)
(* Conditions (EdgeCondition): field, operator, value.                     *)
(***************************************************************************)
Cond(f, op, v) == [field |-> f, operator |-> op, value |-> v]
\* "no condition" (Optional[EdgeCondition] = None)
NoCond == [field |-> "", operator |-> "", value |-> PyNone]

\* Python's ordering of two values: defined between two integers (and
\* between two strings); any other pair raises TypeError.
Ordered(op, a, b) ==
    IF a.t = "int" /\ b.t = "int"
    THEN CASE op = ">" -> IF a.n > b.n THEN "true" ELSE "false"
           [] op = "<" -> IF a.n < b.n THEN "true" ELSE "false"
           [] op = ">=" -> IF a.n >= b.n THEN "true" ELSE "false"
           [] op = "<=" -> IF a.n <= b.n THEN "true" ELSE "false"
    ELSE IF a.t = "str" /\ b.t = "str"
    THEN (IF op \in {">=", "<="} THEN "true" ELSE "false")
    ELSE "raise"

\* Python's  a in b : a list tests membership by equality, a string accepts
\* only a string on the left, anything else is not iterable.
Member(a, b) ==
    IF b.t = "list" THEN (IF a.t = "int" /\ a.n \in b.s THEN "true" ELSE "false")
    ELSE IF b.t = "str" THEN (IF a.t = "str" THEN "true" ELSE "raise")
    ELSE "raise"

Negate(r) == IF r = "true" THEN "false" ELSE IF r = "false" THEN "true" ELSE r

\* the operator chain shared by the evaluators: "true", "false" or "raise"
ApplyOperator(value, condition) ==
    LET op == condition.operator
        lit == condition.value
    IN  CASE op = "==" -> IF value = lit THEN "true" ELSE "false"
          [] op = "!=" -> IF value # lit THEN "true" ELSE "false"
          [] op \in {">", "<", ">=", "<="} -> Ordered(op, value, lit)
          [] op = "in" -> Member(value, lit)
          [] op = "not_in" -> Negate(Member(value, lit))
          [] OTHER -> "false"

(***************************************************************************)
(* The graph (class Graph).  nodes, edges, conditional_edges and           *)
(* loop_definitions are dicts: functions whose domain is the set of keys.  *)
(* A conditional_edges entry is itself a dict, kept as the sequence of its *)
(* items in insertion order, which is the order the engine iterates in.    *)
(***************************************************************************)
NodeNames == {"A", "B", "C"}
\* entry_point = None
NoName == ""

EmptyFun == [x \in {} |-> x]

\* Graph.__init__
NewGraph(entry_point) ==
    [entry_point |-> entry_point,
     nodes |-> EmptyFun,
     edges |-> EmptyFun,
     conditional_edges |-> EmptyFun,
     loop_definitions |-> EmptyFun]

\* Node.__init__ and LoopNode.__init__ (the counter starts at 0 and is kept
\* in the variable current_iteration)
StandardNode(name, tool) ==
    [name |-> name, tool |-> tool, kind |-> "standard",
     exit_condition |-> NoCond, max_iterations |-> 0]
LoopNode(name, tool, exit_condition, max_iterations) ==
    [name |-> name, tool |-> tool, kind |-> "loop",
     exit_condition |-> exit_condition, max_iterations |-> max_iterations]

\* the result of a call that may raise: the graph it leaves, and whether it raised
Returned(g) == [raised |-> FALSE, graph |-> g]
Raised(g) == [raised |-> TRUE, graph |-> g]

\* an add_node without the test for an existing name
add_node_overwrite(g, node) ==
    Returned([g EXCEPT !.nodes = (node.name :> node) @@ g.nodes,
                       !.edges = (node.name :> <<>>) @@ g.edges])

\* Graph.add_node
add_node(g, node) ==
    IF node.name \in DOMAIN g.nodes
    THEN Raised(g)
    ELSE Returned([g EXCEPT !.nodes = (node.name :> node) @@ g.nodes,
                            !.edges = (node.name :> <<>>) @@ g.edges])

InSeq(x, seq) == \E i \in 1..Len(seq) : seq[i] = x

\* dict[key] = value on a dict kept as its item sequence: an existing key
\* keeps its position, a new key goes last
DictSet(items, key, value) ==
    IF \E i \in 1..Len(items) : items[i].to = key
    THEN [i \in 1..Len(items) |->
            IF items[i].to = key THEN [to |-> key, def |-> value] ELSE items[i]]
    ELSE Append(items, [to |-> key, def |-> value])

\* an add_edge that stores the condition of a new successor only
add_edge_new_only(g, from_node, to_node, edge_def) ==
    IF from_node \notin DOMAIN g.nodes THEN Raised(g)
    ELSE IF to_node \notin DOMAIN g.nodes THEN Raised(g)
    ELSE
      LET succ == g.edges[from_node]
          old == IF from_node \in DOMAIN g.conditional_edges
                 THEN g.conditional_edges[from_node] ELSE <<>>
          g1 == [g EXCEPT !.edges[from_node] = Append(succ, to_node)]
          g2 == IF edge_def.condition # NoCond
                THEN [g1 EXCEPT !.conditional_edges =
                        (from_node :> DictSet(old, to_node, edge_def))
                            @@ g1.conditional_edges]
                ELSE g1
      IN  Returned(IF InSeq(to_node, succ) THEN g ELSE g2)

\* an add_edge that does not look the target up
add_edge_unchecked(g, from_node, to_node, edge_def) ==
    IF from_node \notin DOMAIN g.nodes THEN Raised(g)
    ELSE
      LET succ == g.edges[from_node]
          g1 == IF InSeq(to_node, succ) THEN g
                ELSE [g EXCEPT !.edges[from_node] = Append(succ, to_node)]
          old == IF from_node \in DOMAIN g1.conditional_edges
                 THEN g1.conditional_edges[from_node] ELSE <<>>
          g2 == IF edge_def.condition # NoCond
                THEN [g1 EXCEPT !.conditional_edges =
                        (from_node :> DictSet(old, to_node, edge_def))
                            @@ g1.conditional_edges]
                ELSE g1
      IN  Returned(g2)

\* an add_edge that appends the target whether or not it is listed
add_edge_append(g, from_node, to_node, edge_def) ==
    IF from_node \notin DOMAIN g.nodes THEN Raised(g)
    ELSE IF to_node \notin DOMAIN g.nodes THEN Raised(g)
    ELSE
      LET g1 == [g EXCEPT !.edges[from_node] = Append(@, to_node)]
          old == IF from_node \in DOMAIN g1.conditional_edges
                 THEN g1.conditional_edges[from_node] ELSE <<>>
          g2 == IF edge_def.condition # NoCond
                THEN [g1 EXCEPT !.conditional_edges =
                        (from_node :> DictSet(old, to_node, edge_def))
                            @@ g1.conditional_edges]
                ELSE g1
      IN  Returned(g2)

\* Graph.add_edge
add_edge(g, from_node, to_node, edge_def) ==
    IF from_node \notin DOMAIN g.nodes THEN Raised(g)
    ELSE IF to_node \notin DOMAIN g.nodes THEN Raised(g)
    ELSE
      LET succ == g.edges[from_node]
          g1 == IF InSeq(to_node, succ) THEN g
                ELSE [g EXCEPT !.edges[from_node] = Append(succ, to_node)]
          old == IF from_node \in DOMAIN g1.conditional_edges
                 THEN g1.conditional_edges[from_node] ELSE <<>>
          g2 == IF edge_def.condition # NoCond
                THEN [g1 EXCEPT !.conditional_edges =
                        (from_node :> DictSet(old, to_node, edge_def))
                            @@ g1.conditional_edges]
                ELSE g1
      IN  Returned(g2)

\* Graph.add_loop
add_loop(g, loop_def) ==
    IF loop_def.node \notin DOMAIN g.nodes
    THEN Raised(g)
    ELSE Returned([g EXCEPT !.loop_definitions =
                      (loop_def.node :> loop_def) @@ g.loop_definitions])

\* get_next_nodes reading the wrong dict: the keys of conditional_edges
get_next_nodes_conditional(g, current_node) ==
    IF current_node \in DOMAIN g.conditional_edges
    THEN [i \in 1..Len(g.conditional_edges[current_node]) |->
            g.conditional_edges[current_node][i].to]
    ELSE <<>>

\* Graph.get_next_nodes
get_next_nodes(g, current_node) ==
    IF current_node \in DOMAIN g.edges THEN g.edges[current_node] ELSE <<>>

\* the walk of validate: has_cycle(node, path) with the set visited it
\* shares between its invocations; calls counts the invocations
RECURSIVE has_cycle(_, _, _, _)
RECURSIVE has_cycle_next(_, _, _, _)
has_cycle(g, node, path, walk) ==
    LET w == [walk EXCEPT !.calls = @ + 1]
    IN  IF node \in path
        THEN [w EXCEPT !.found = node \notin DOMAIN g.loop_definitions]
        ELSE IF node \in w.visited THEN [w EXCEPT !.found = FALSE]
        ELSE has_cycle_next(g, get_next_nodes(g, node), path \cup {node},
                            [w EXCEPT !.visited = @ \cup {node}])
\* for next_node in self.get_next_nodes(node)
has_cycle_next(g, next_nodes, path, walk) ==
    IF next_nodes = <<>> THEN [walk EXCEPT !.found = FALSE]
    ELSE LET r == has_cycle(g, Head(next_nodes), path, walk)
         IN  IF r.found THEN r ELSE has_cycle_next(g, Tail(next_nodes), path, r)

\* has_cycle(self.entry_point, set())
ValidateWalk(g) ==
    has_cycle(g, g.entry_point, {}, [found |-> FALSE, visited |-> {}, calls |-> 0])

\* a validate that rejects the cycles its walk reports
validate_no_cycles(g) ==
    IF g.entry_point = NoName THEN Raised(g)
    ELSE IF g.entry_point \notin DOMAIN g.nodes THEN Raised(g)
    ELSE IF ValidateWalk(g).found THEN Raised(g)
    ELSE Returned(g)

\* a validate that accepts any entry point
validate_any(g) == Returned(g)

\* Graph.validate: raises unless the entry point is set and names a node.
\* The cycle walk that follows only logs a warning.
validate(g) ==
    IF g.entry_point = NoName THEN Raised(g)
    ELSE IF g.entry_point \notin DOMAIN g.nodes THEN Raised(g)
    ELSE Returned(g)

(***************************************************************************)
(* GraphBuilder.build_from_definition.                                     *)
(***************************************************************************)
\* the tool registry: the step functions a definition can name
ToolNames == {"inc", "noop", "replace", "flaky", "append"}

\* next((l for l in definition.loops if l.node == name), None)
RECURSIVE FirstLoop(_, _)
FirstLoop(loops, name) ==
    IF loops = <<>> THEN [node |-> NoName, condition |-> NoCond, max_iterations |-> 0]
    ELSE IF Head(loops).node = name THEN Head(loops)
    ELSE FirstLoop(Tail(loops), name)

\* the loop over the nodes without the test of the tool
RECURSIVE BuildNodes_any(_, _, _)
BuildNodes_any(r, node_defs, loops) ==
    IF r.raised \/ node_defs = <<>> THEN r
    ELSE
      LET nd == Head(node_defs)
          ld == FirstLoop(loops, nd.name)
          node == IF ld.node # NoName
                  THEN LoopNode(nd.name, nd.tool, ld.condition, ld.max_iterations)
                  ELSE StandardNode(nd.name, nd.tool)
      IN  BuildNodes_any(add_node(r.graph, node), Tail(node_defs), loops)

\* the loop  for node_def in definition.nodes
RECURSIVE BuildNodes(_, _, _)
BuildNodes(r, node_defs, loops) ==
    IF r.raised \/ node_defs = <<>> THEN r
    ELSE
      LET nd == Head(node_defs)
          ld == FirstLoop(loops, nd.name)
          node == IF ld.node # NoName
                  THEN LoopNode(nd.name, nd.tool, ld.condition, ld.max_iterations)
                  ELSE StandardNode(nd.name, nd.tool)
      IN  IF nd.tool \notin ToolNames THEN Raised(r.graph)
          ELSE BuildNodes(add_node(r.graph, node), Tail(node_defs), loops)

\* the loop  for edge_def in definition.edges
RECURSIVE BuildEdges(_, _)
BuildEdges(r, edge_defs) ==
    IF r.raised \/ edge_defs = <<>> THEN r
    ELSE LET e == Head(edge_defs)
         IN  BuildEdges(add_edge(r.graph, e.from_node, e.to_node, e), Tail(edge_defs))

\* the loop  for loop_def in definition.loops
RECURSIVE BuildLoops(_, _)
BuildLoops(r, loop_defs) ==
    IF r.raised \/ loop_defs = <<>> THEN r
    ELSE BuildLoops(add_loop(r.graph, Head(loop_defs)), Tail(loop_defs))

build_from_definition(definition) ==
    LET r1 == BuildNodes(Returned(NewGraph(definition.entry_point)),
                         definition.nodes, definition.loops)
        r2 == BuildEdges(r1, definition.edges)
        r3 == BuildLoops(r2, definition.loops)
    IN  IF r3.raised THEN r3 ELSE validate(r3.graph)

(***************************************************************************)
(* Step functions.  A node's tool is opaque to the engine; these four show *)
(* the behaviours the calling contract allows: a dict to merge, a full     *)
(* state to replace the state with, or an exception.                       *)
(***************************************************************************)
\* an exception: its class, str(e) and the call that raised it (its
\* traceback); NoError is "nothing raised"
Exc(type, message, where) == [type |-> type, message |-> message, where |-> where]
NoError == Exc("", "", "")

\* the results  await self.tool(state, **self.config)  can have
ToolResults(tool, state) ==
    LET count == IF state.data["count"] = Absent THEN PyInt(0) ELSE state.data["count"]
        \* return {"count": state.get("count", 0) + 1}
        inc == IF count.t = "int"
               THEN [kind |-> "dict", error |-> NoError,
                     updates |-> [EmptyData EXCEPT !["count"] = PyInt(count.n + 1)],
                     state |-> state, mutates |-> FALSE]
               ELSE [kind |-> "raise",
                     error |-> Exc("TypeError", "unsupported operand", "tool"),
                     updates |-> EmptyData, state |-> state, mutates |-> FALSE]
        \* raise Exception("boom")
        boom == [kind |-> "raise", error |-> Exc("Exception", "boom", "tool"),
                 updates |-> EmptyData, state |-> state, mutates |-> FALSE]
    IN  CASE tool = "inc" -> {inc}
          [] tool = "noop" ->
               \* return {}
               {[kind |-> "dict", error |-> NoError, updates |-> EmptyData, state |-> state,
                 mutates |-> FALSE]}
          [] tool = "replace" ->
               \* return WorkflowState(data={"flag": 1}, metadata={"replaced": True})
               {[kind |-> "state", error |-> NoError, updates |-> EmptyData,
                 state |-> [data |-> [EmptyData EXCEPT !["flag"] = PyInt(1)],
                            metadata |-> 1],
                 mutates |-> FALSE]}
          [] tool = "append" ->
               \* state.data["flag"].append(len(state.data["flag"])); return {}
               \* the list object is changed in place (mutates)
               IF state.data["flag"] = PyListRef
               THEN {[kind |-> "dict", error |-> NoError, updates |-> EmptyData,
                      state |-> state, mutates |-> TRUE]}
               ELSE {[kind |-> "raise", error |-> Exc("KeyError", "flag", "tool"),
                      updates |-> EmptyData, state |-> state, mutates |-> FALSE]}
          [] OTHER ->
               \* "flaky": as "inc", or an I/O error
               {inc, boom}

\* Node.execute, given the tool's result: the state it returns (a dict
\* result is merged into data, a WorkflowState result replaces the state);
\* an exception is re-raised
NodeExecute(state, result) ==
    IF result.kind = "raise" THEN [raised |-> TRUE, error |-> result.error, state |-> state]
    ELSE IF result.kind = "dict"
    THEN [raised |-> FALSE, error |-> NoError, state |-> StateUpdate(state, result.updates)]
    ELSE [raised |-> FALSE, error |-> NoError, state |-> result.state]

(***************************************************************************)
(* LoopNode.                                                               *)
(***************************************************************************)
\* LoopNode._evaluate_exit_condition: no try/except around the operators
EvaluateExitCondition(node, value) == ApplyOperator(value, node.exit_condition)

\* should_exit_loop that tests the iteration cap only
should_exit_loop_cap_only(node, iteration, state) ==
    IF iteration >= node.max_iterations THEN "true" ELSE "false"

\* should_exit_loop that tests the exit condition only
should_exit_loop_no_cap(node, iteration, state) ==
    EvaluateExitCondition(node, StateGet(state, node.exit_condition.field))

\* LoopNode.should_exit_loop with the counter value iteration:
\* "true", "false" or "raise"
should_exit_loop(node, iteration, state) ==
    IF iteration >= node.max_iterations THEN "true"
    ELSE EvaluateExitCondition(node, StateGet(state, node.exit_condition.field))

\* a reset_iteration that leaves the counter as it is
reset_iteration_skip(iteration) == iteration

\* LoopNode.increment_iteration, LoopNode.reset_iteration
increment_iteration(iteration) == iteration + 1
reset_iteration(iteration) == 0

(***************************************************************************)
(* ExecutionEngine: next-node resolution.                                  *)
(***************************************************************************)
\* an _evaluate_condition in which an exception counts as True
EvaluateCondition_faulty(state, condition) ==
    ApplyOperator(StateGet(state, condition.field), condition) # "false"

\* ExecutionEngine._evaluate_condition: an exception counts as False
EvaluateCondition(state, condition) ==
    ApplyOperator(StateGet(state, condition.field), condition) = "true"

\* the loop over conditions.items() without its return: the last item
\* whose condition holds wins
RECURSIVE FirstMatch_last(_, _)
FirstMatch_last(items, state) ==
    IF items = <<>> THEN NoName
    ELSE IF FirstMatch_last(Tail(items), state) # NoName
    THEN FirstMatch_last(Tail(items), state)
    ELSE IF Head(items).def.condition # NoCond
            /\ ApplyOperator(StateGet(state, Head(items).def.condition.field),
                             Head(items).def.condition) = "true"
    THEN Head(items).to
    ELSE NoName

\* for next_node, edge_def in conditions.items(): the first item whose
\* condition holds, or NoName
RECURSIVE FirstMatch(_, _)
FirstMatch(items, state) ==
    IF items = <<>> THEN NoName
    ELSE IF Head(items).def.condition # NoCond
            /\ EvaluateCondition(state, Head(items).def.condition)
    THEN Head(items).to
    ELSE FirstMatch(Tail(items), state)

\* _determine_next_node falling back to the last plain successor
DetermineNextNode_last(g, current_node, state) ==
    LET name == current_node.name
        next_nodes == get_next_nodes(g, name)
        matched == IF name \in DOMAIN g.conditional_edges
                   THEN FirstMatch(g.conditional_edges[name], state)
                   ELSE NoName
    IN  IF next_nodes = <<>> THEN NoName
        ELSE IF matched # NoName THEN matched
        ELSE next_nodes[Len(next_nodes)]

\* a _determine_next_node without the plain successor list as fallback
DetermineNextNode_no_fallback(g, current_node, state) ==
    LET name == current_node.name
        next_nodes == get_next_nodes(g, name)
    IN  IF next_nodes = <<>> THEN NoName
        ELSE IF name \in DOMAIN g.conditional_edges
        THEN FirstMatch(g.conditional_edges[name], state)
        ELSE NoName

\* ExecutionEngine._determine_next_node; NoName is None
DetermineNextNode(g, current_node, state) ==
    LET name == current_node.name
        next_nodes == get_next_nodes(g, name)
        matched == IF name \in DOMAIN g.conditional_edges
                   THEN FirstMatch(g.conditional_edges[name], state)
                   ELSE NoName
    IN  IF next_nodes = <<>> THEN NoName
        ELSE IF Len(next_nodes) = 1 /\ name \notin DOMAIN g.conditional_edges
        THEN next_nodes[1]
        ELSE IF matched # NoName THEN matched
        ELSE next_nodes[1]

(***************************************************************************)
(* The run record (WorkflowRun) and its log (LogEntry).  Timestamps are    *)
(* kept as set / not set.                                                  *)
(***************************************************************************)
RunIds == 1..MaxRuns

NoDetails ==
    [iteration |-> -1, iterations |-> -1, reason |-> "", error |-> "",
     state_snapshot |-> EmptyData]

LogEntry(node, action, details) ==
    [node |-> node, action |-> action, details |-> details]

\* WorkflowRun(graph_id=..., state=WorkflowState(data=data))
NewRun(data) ==
    [status |-> "pending",
     state |-> [data |-> data, metadata |-> 0],
     execution_log |-> <<>>,
     current_node |-> NoName,
     started_at |-> FALSE,
     completed_at |-> FALSE,
     error |-> ""]

\* an add_log that puts the new entry in front of the log
add_log_prepend(run, node, action, details) ==
    [run EXCEPT !.execution_log = <<LogEntry(node, action, details)>> \o @]

\* WorkflowRun.add_log
add_log(run, node, action, details) ==
    [run EXCEPT !.execution_log = Append(@, LogEntry(node, action, details))]

\* a mark_started that leaves the status pending
mark_started_late(run) == [run EXCEPT !.started_at = TRUE]

\* WorkflowRun.mark_started
mark_started(run) == [run EXCEPT !.status = "running", !.started_at = TRUE]

\* WorkflowRun.mark_completed
mark_completed(run) == [run EXCEPT !.status = "completed", !.completed_at = TRUE]

\* a mark_failed that does not record the error text
mark_failed_no_error(run, error) == [run EXCEPT !.status = "failed", !.completed_at = TRUE]

\* WorkflowRun.mark_failed
mark_failed(run, error) ==
    [run EXCEPT !.status = "failed", !.completed_at = TRUE, !.error = error]

(***************************************************************************)
(* State of the model.                                                     *)
(***************************************************************************)
VARIABLES
    graph,              \* the Graph object the runs execute
    current_iteration,  \* LoopNode.current_iteration of each node of the graph
    runs,               \* the WorkflowRun objects, by run id
    pc,                 \* where each execute_graph call stands
    current_node_name,  \* the local variable of each execute_graph call
    active_runs,        \* ExecutionEngine.active_runs (its keys)
    raised,             \* the exception raised inside each call, if any
    propagated,         \* execute_graph raised to its caller
    definition,         \* the GraphDefinition the graph was built from
    stream,             \* the stream_execution generator of each run
    monitor,            \* the websocket_monitor_run handler of each run
    sent,               \* the events delivered over the open connection of
                        \* each run's observer
    call,               \* the last call made on the Graph or the graph API
    graphs,             \* InMemoryStorage.graphs (its values)
    heap,               \* the contents of the list object in each run's
                        \* state data
    storage             \* InMemoryStorage: the keys of graphs, the items
                        \* of runs, and graph_runs

\* the observers of the runs
obsvars == <<stream, monitor, sent>>

\* the construction of graphs, and the storage
apivars == <<call, graphs, storage>>

\* InMemoryStorage.__init__: three empty dicts
NewStorage == [graphs |-> {}, runs |-> <<>>, graph_runs |-> EmptyFun]

\* a list.append on the list object of a run
ListAppend(h) == h \cup {Cardinality(h)}

vars == <<graph, current_iteration, runs, pc, current_node_name, active_runs,
          raised, propagated, definition, stream, monitor, sent, call, graphs, heap,
          storage>>

(***************************************************************************)
(* The inputs: graph definitions (GraphDefinition), built into graphs by   *)
(* build_from_definition, and the initial state data of a run.             *)
(***************************************************************************)
SeqsUpTo(S, n) == UNION {[1..k -> S] : k \in 0..n}

\* guards of conditional edges
GuardCountGe1 == Cond("count", ">=", PyInt(1))
GuardCountNe0 == Cond("count", "!=", PyInt(0))
GuardFlagIn == Cond("flag", "in", PyList({1}))
Guards == {GuardCountGe1, GuardCountNe0, GuardFlagIn}

\* exit conditions of loop declarations
ExitCountGe2 == Cond("count", ">=", PyInt(2))
ExitNever == Cond("flag", "==", PyInt(7))
ExitConds == {ExitCountGe2, ExitNever}

EdgeDefinition(from_node, to_node, condition) ==
    [from_node |-> from_node, to_node |-> to_node, condition |-> condition]
LoopDefinition(node, condition, max_iterations) ==
    [node |-> node, condition |-> condition, max_iterations |-> max_iterations]
NodeDefinition(name, tool) == [name |-> name, tool |-> tool]

\* every node runs "inc", but for at most one of the nodes A and B
ToolChoices ==
    {t \in [NodeNames -> ToolNames \ {"append"}] :
        /\ t["C"] = "inc"
        /\ Cardinality({n \in NodeNames : t[n] # "inc"}) <= 1}

NodeDefs(t) ==
    <<NodeDefinition("A", t["A"]), NodeDefinition("B", t["B"]), NodeDefinition("C", t["C"])>>

\* unconditional edges out of A and B
PlainEdges ==
    {EdgeDefinition(p[1], p[2], NoCond) :
        p \in {<<"A", "A">>, <<"A", "B">>, <<"A", "C">>, <<"B", "A">>, <<"B", "C">>}}
\* edges out of the entry node, guarded or not
GuardedEdges ==
    {EdgeDefinition("A", t, c) : t \in {"B", "C"}, c \in Guards \cup {NoCond}}

LoopChoices ==
    {<<>>} \cup {<<LoopDefinition(n, c, m)>> :
                    n \in {"A", "B"}, c \in ExitConds, m \in 1..MaxIter}

GraphDefinition(entry_point, nodes, edges, loops) ==
    [entry_point |-> entry_point, nodes |-> nodes, edges |-> edges, loops |-> loops]

\* definitions with loops and unconditional edges
LoopFamily ==
    {GraphDefinition("A", NodeDefs(t), e, l) :
        t \in ToolChoices, e \in SeqsUpTo(PlainEdges, MaxEdges), l \in LoopChoices}
\* definitions with conditional edges out of the entry node
GuardFamily ==
    {GraphDefinition("A", NodeDefs(t), e, <<>>) :
        t \in {c \in ToolChoices : c["B"] = "inc"},
        e \in SeqsUpTo(GuardedEdges, MaxGuarded)}

Definitions == LoopFamily \cup GuardFamily

\* graphs put together with the Graph methods and never validated: the
\* entry point is unset or names no node
DirectGraphs ==
    {add_node(NewGraph(e), StandardNode("A", "inc")).graph : e \in {NoName, "B"}}

InitialData == {EmptyData, [EmptyData EXCEPT !["count"] = PyInt(1)]}

(***************************************************************************)
(* Init: a graph, and the runs the caller created for it, each from the    *)
(* same initial state data: WorkflowRun(graph_id, state=initial_state).    *)
(***************************************************************************)
NoDefinition == GraphDefinition(NoName, <<>>, <<>>, <<>>)

\* the definitions of the observed runs: one plain edge at most, out of
\* A; a loop, if any, on A; A's tool "inc" or "noop"
ObsDefinitions ==
    {d \in LoopFamily :
        /\ Len(d.edges) <= 1
        /\ \A i \in 1..Len(d.edges) : d.edges[i].from_node = "A"
        /\ \A i \in 1..Len(d.loops) : d.loops[i].node = "A"
        /\ d.nodes[1].tool \in {"inc", "noop"}
        /\ d.nodes[2].tool = "inc"}

\* the locals of a stream_execution generator and of a
\* websocket_monitor_run handler; pc "off": there is none
Observer(p) == [pc |-> p, last_log_count |-> 0, current_log_count |-> 0, i |-> 0]

\* a call on the Graph or the graph API: its number, the operation, the
\* node it names, the successor and condition (add_edge), and whether it
\* raised
ApiCall(n, op, name, to, condition, failed) ==
    [n |-> n, op |-> op, name |-> name, to |-> to, condition |-> condition,
     raised |-> failed, walk |-> 0]
NoCall == ApiCall(0, "", NoName, NoName, NoCond, FALSE)

\* a graph built from one of the definitions D or taken from G, its loop
\* counters at 0, and pending runs created with the same initial data
SetupWith(D, G, I) ==
    /\ \/ /\ definition \in D
          /\ ~build_from_definition(definition).raised
          /\ graph = build_from_definition(definition).graph
       \/ /\ definition = NoDefinition
          /\ graph \in G
    /\ current_iteration = [n \in DOMAIN graph.nodes |-> 0]
    /\ \E data \in I : runs = [r \in RunIds |-> NewRun(data)]
    /\ pc = [r \in RunIds |-> "pending"]
    /\ current_node_name = [r \in RunIds |-> NoName]
    /\ active_runs = {}
    /\ raised = [r \in RunIds |-> NoError]
    /\ propagated = [r \in RunIds |-> FALSE]
    /\ sent = [r \in RunIds |-> <<>>]
    /\ call = NoCall
    /\ graphs = IF definition = NoDefinition THEN <<>> ELSE <<graph>>
    /\ heap = [r \in RunIds |-> {}]
    /\ storage = NewStorage

Setup(D, G) == SetupWith(D, G, InitialData)

\* runs executed without an observer
Init ==
    /\ Setup(Definitions, DirectGraphs)
    /\ stream = [r \in RunIds |-> Observer("off")]
    /\ monitor = [r \in RunIds |-> Observer("off")]

(***************************************************************************)
(* ExecutionEngine.execute_graph, one action per stretch of code between   *)
(* two points where the coroutine can be suspended.                        *)
(***************************************************************************)
\* number of node executions begun in a run
Started(run) ==
    Cardinality({i \in 1..Len(run.execution_log) : run.execution_log[i].action = "started"})

\* an except clause that lets a TypeError through
Catches_NoTypeError(exc) == exc.type \in {"Exception", "ValueError"}

\* except Exception as e: every exception the engine meets is an Exception
Catches(exc) == exc.type \in {"Exception", "ValueError", "TypeError"}

\* an except clause that marks the run failed and logs nothing
Except_NoLog(run, exc) == mark_failed(run, exc.message)

\* the except clause (mark_failed, add_log) on the run record
Except(run, exc) ==
    add_log(mark_failed(run, exc.message),
            IF run.current_node # NoName THEN run.current_node ELSE "unknown",
            "error",
            [NoDetails EXCEPT !.error = exc.message])

\* a finally clause that empties active_runs
Unregister_all(active, run_id) == {}

\* the finally clause: del self.active_runs[run.run_id], if it is there
Unregister(active, run_id) == active \ {run_id}

\* ExecutionEngine.get_run_status: self.active_runs.get(run_id), the run or
\* None (<<>>)
get_run_status(run_id) == IF run_id \in active_runs THEN <<runs[run_id]>> ELSE <<>>

\* an exception raised inside the try block of call r, whose run record and
\* loop counters are run and iter at that point: the except clause if it
\* catches the exception, then the finally clause, then return or re-raise
Raise(r, run, iter, exc) ==
    /\ runs' = [runs EXCEPT ![r] = IF Catches(exc) THEN Except(run, exc) ELSE run]
    /\ raised' = [raised EXCEPT ![r] = exc]
    /\ propagated' = [propagated EXCEPT ![r] = ~Catches(exc)]
    /\ current_iteration' = iter
    /\ active_runs' = Unregister(active_runs, r)
    /\ pc' = [pc EXCEPT ![r] = "done"]
    /\ UNCHANGED <<graph, current_node_name, definition>>

\* execute_graph called again on a run that has ended
Call_again(r) ==
    /\ UNCHANGED <<obsvars, apivars, heap>>
    /\ pc[r] \in {"pending", "done"}
    /\ runs' = [runs EXCEPT ![r] = mark_started(@)]
    /\ active_runs' = active_runs \cup {r}
    /\ current_node_name' = [current_node_name EXCEPT ![r] = graph.entry_point]
    /\ pc' = [pc EXCEPT ![r] = "top"]
    /\ UNCHANGED <<graph, current_iteration, raised, propagated, definition>>

\* execute_graph is called on a pending run (by its stream, if it has
\* one): mark_started, active_runs, the entry point
Call(r) ==
    /\ UNCHANGED <<obsvars, apivars, heap>>
    /\ pc[r] = "pending"
    /\ stream[r].pc # "new"
    /\ runs' = [runs EXCEPT ![r] = mark_started(@)]
    /\ active_runs' = active_runs \cup {r}
    /\ current_node_name' = [current_node_name EXCEPT ![r] = graph.entry_point]
    /\ pc' = [pc EXCEPT ![r] = "top"]
    /\ UNCHANGED <<graph, current_iteration, raised, propagated, definition>>

\* execute_graph is called once the call before it has returned
Begin(r) ==
    /\ \A q \in RunIds : q < r => pc[q] = "done"
    /\ Call(r)

\* while current_node_name: ... up to the call of the node's tool; when the
\* loop ends, mark_completed, the finally clause and return
Top(r) ==
    /\ UNCHANGED <<obsvars, apivars, heap>>
    /\ pc[r] = "top"
    /\ LET name == current_node_name[r]
           node == graph.nodes[name]
           iteration == IF node.kind = "loop" THEN current_iteration[name] ELSE 0
       IN  IF name = NoName
           THEN /\ runs' = [runs EXCEPT ![r] = mark_completed(@)]
                /\ active_runs' = Unregister(active_runs, r)
                /\ pc' = [pc EXCEPT ![r] = "done"]
                /\ UNCHANGED <<graph, current_iteration, current_node_name, raised, propagated,
                               definition>>
           ELSE IF name \notin DOMAIN graph.nodes
           THEN Raise(r, runs[r], current_iteration,
                      Exc("ValueError", "Node not found in graph", "get_node"))
           ELSE /\ Started(runs[r]) < MaxSteps
                /\ runs' = [runs EXCEPT ![r] =
                      add_log([@ EXCEPT !.current_node = name], name, "started",
                              [NoDetails EXCEPT !.iteration = iteration])]
                /\ pc' = [pc EXCEPT ![r] = "exec"]
                /\ UNCHANGED <<graph, current_iteration, current_node_name,
                               active_runs, raised, propagated, definition>>

\* the I/O errors so far
Failures == Cardinality({q \in RunIds : raised[q].message = "boom"})

\* a loop exit that keeps the resolved successor
LoopExitNext_keep(next_node_name) == next_node_name

\* next_node_name = None, after a loop exit
LoopExitNext(next_node_name) == NoName

\* the node's tool returns or raises; then, without suspension, the
\* completed entry, next-node resolution and the loop bookkeeping, up to
\* asyncio.sleep
Exec(r) ==
    /\ UNCHANGED <<obsvars, apivars>>
    /\ pc[r] = "exec"
    /\ \E tool_result \in ToolResults(graph.nodes[current_node_name[r]].tool, runs[r].state) :
        /\ tool_result.error.message = "boom" => Failures < MaxFailures
        /\ heap' = IF tool_result.mutates THEN [heap EXCEPT ![r] = ListAppend(@)] ELSE heap
        /\ LET name == current_node_name[r]
               node == graph.nodes[name]
               result == NodeExecute(runs[r].state, tool_result)
               run1 == [runs[r] EXCEPT !.state = result.state]
               run2 == add_log(run1, name, "completed",
                               [NoDetails EXCEPT !.state_snapshot = run1.state.data])
               next_node_name == DetermineNextNode(graph, node, run2.state)
               count == increment_iteration(current_iteration[name])
               iter1 == [current_iteration EXCEPT ![name] = count]
               exit == should_exit_loop(node, count, run2.state)
           IN  IF result.raised
               THEN Raise(r, runs[r], current_iteration, result.error)
               ELSE IF node.kind # "loop"
               THEN /\ runs' = [runs EXCEPT ![r] = run2]
                    /\ current_node_name' = [current_node_name EXCEPT ![r] = next_node_name]
                    /\ pc' = [pc EXCEPT ![r] = "sleep"]
                    /\ UNCHANGED <<graph, current_iteration, active_runs, raised,
                                   propagated, definition>>
               ELSE IF exit = "raise"
               THEN Raise(r, run2, iter1,
                          Exc("TypeError", "not supported between instances",
                              "should_exit_loop"))
               ELSE IF exit = "true"
               THEN /\ runs' = [runs EXCEPT ![r] =
                          add_log(run2, name, "loop_exited",
                                  [NoDetails EXCEPT !.iterations = count,
                                                    !.reason = "condition_met"])]
                    /\ current_iteration' = [iter1 EXCEPT ![name] = reset_iteration(@)]
                    /\ current_node_name' = [current_node_name EXCEPT ![r] =
                                                LoopExitNext(next_node_name)]
                    /\ pc' = [pc EXCEPT ![r] = "sleep"]
                    /\ UNCHANGED <<graph, active_runs, raised, propagated, definition>>
               ELSE /\ runs' = [runs EXCEPT ![r] =
                          add_log(run2, name, "loop_continued",
                                  [NoDetails EXCEPT !.iteration = count])]
                    /\ current_iteration' = iter1
                    /\ current_node_name' = [current_node_name EXCEPT ![r] = next_node_name]
                    /\ pc' = [pc EXCEPT ![r] = "sleep"]
                    /\ UNCHANGED <<graph, active_runs, raised, propagated, definition>>

\* await asyncio.sleep(0.01) returns: back to the loop test
Sleep(r) ==
    /\ UNCHANGED <<obsvars, apivars, heap>>
    /\ pc[r] = "sleep"
    /\ pc' = [pc EXCEPT ![r] = "top"]
    /\ UNCHANGED <<graph, current_iteration, runs, current_node_name, active_runs,
                   raised, propagated, definition>>

Next ==
    \E r \in RunIds :
        \/ Begin(r)
        \/ Top(r)
        \/ Exec(r)
        \/ Sleep(r)

\* runs executed one after another on the same graph
Spec == Init /\ [][Next]_vars

\* the definitions of the runs executed concurrently: a Loop node A, if
\* any, left when count >= 2, and one plain edge at most, from A to A or B;
\* every tool is "inc"
ConcDefinitions ==
    {d \in ObsDefinitions :
        /\ d.nodes[1].tool = "inc"
        /\ \A i \in 1..Len(d.edges) : d.edges[i].to_node # "C"
        /\ \A i \in 1..Len(d.loops) : d.loops[i].condition = ExitCountGe2}

ConcInit ==
    /\ Setup(ConcDefinitions, {})
    /\ stream = [r \in RunIds |-> Observer("off")]
    /\ monitor = [r \in RunIds |-> Observer("off")]

ConcNext ==
    \E r \in RunIds :
        \/ Call(r)
        \/ Top(r)
        \/ Exec(r)
        \/ Sleep(r)

\* runs of the same graph executed concurrently (run_graph_async, or
\* several requests): their steps interleave at asyncio.sleep
ConcSpec == ConcInit /\ [][ConcNext]_vars

\* the definitions of a run executed alone: unconditional edges out of A
\* and B, a loop declaration or none; the step function of A adds 1 to
\* count or raises
LiveDefinitions ==
    {d \in LoopFamily : d.nodes[1].tool \in {"inc", "flaky"} /\ d.nodes[2].tool = "inc"}

LiveInit ==
    /\ Setup(LiveDefinitions, {})
    /\ stream = [r \in RunIds |-> Observer("off")]
    /\ monitor = [r \in RunIds |-> Observer("off")]

LiveNext ==
    \/ Call(1)
    \/ Top(1)
    \/ Exec(1)
    \/ Sleep(1)

\* one run of a graph: the event loop resumes the coroutine after each
\* asyncio.sleep, and each step function returns or raises, so a step that
\* can be taken is taken
LiveSpec == LiveInit /\ [][LiveNext]_vars /\ WF_vars(LiveNext)

\* definitions with nodes A and B whose entry point, edges and loop
\* declaration name a declared node or the undeclared C
BuiltDefinitions ==
    {GraphDefinition(e, <<NodeDefinition("A", "inc"), NodeDefinition("B", "inc")>>, ed, l) :
        e \in {"A", "C"},
        ed \in SeqsUpTo({EdgeDefinition(f, t, c) :
                            f \in {"A", "B"}, t \in {"A", "B", "C"},
                            c \in {NoCond, GuardCountGe1}}, MaxEdges),
        l \in {<<>>, <<LoopDefinition("A", ExitCountGe2, 1)>>,
                     <<LoopDefinition("C", ExitCountGe2, 1)>>}}

\* the graphs build_from_definition returns for these definitions
BuiltInit ==
    /\ Setup(BuiltDefinitions, {})
    /\ stream = [r \in RunIds |-> Observer("off")]
    /\ monitor = [r \in RunIds |-> Observer("off")]

\* runs executed one after another on a graph build_from_definition
\* returned
BuiltSpec == BuiltInit /\ [][Next]_vars

(***************************************************************************)
(* Runs whose state data holds a list object, with a step function that    *)
(* appends to it in place.                                                 *)
(***************************************************************************)
\* A's tool is "append", B's "append" or "inc"; one plain edge at most
HeapDefinitions ==
    {GraphDefinition("A", NodeDefs(t), e, l) :
        t \in {c \in [NodeNames -> {"inc", "append"}] : c["A"] = "append" /\ c["C"] = "inc"},
        e \in SeqsUpTo(PlainEdges, 1), l \in LoopChoices}

\* the initial state {"flag": []}, with or without a count
HeapData == {[d EXCEPT !["flag"] = PyListRef] : d \in InitialData}

HeapInit ==
    /\ SetupWith(HeapDefinitions, {}, HeapData)
    /\ stream = [r \in RunIds |-> Observer("off")]
    /\ monitor = [r \in RunIds |-> Observer("off")]

HeapSpec == HeapInit /\ [][Next]_vars

(***************************************************************************)
(* A Graph under construction: add_node, add_edge, add_loop and validate   *)
(* called in any order on a new Graph, failing calls included.             *)
(***************************************************************************)
ApiNames == {"A", "B"}

\* the node objects passed to add_node
ApiNodes ==
    {StandardNode(x, "inc") : x \in ApiNames}
        \cup {LoopNode(x, "noop", ExitCountGe2, 1) : x \in ApiNames}

\* the conditions passed to add_edge
ApiConds == {NoCond, GuardCountGe1, GuardFlagIn}

\* nothing but the graph is touched
NoRuns ==
    UNCHANGED <<runs, pc, current_node_name, active_runs, raised, propagated,
                definition, obsvars, heap, storage>>

AddNode(node) ==
    LET r == add_node(graph, node)
    IN  /\ call.n < MaxCalls
        /\ graph' = r.graph
        /\ current_iteration' =
              IF r.raised THEN current_iteration
              ELSE (node.name :> 0) @@ current_iteration
        /\ call' = ApiCall(call.n + 1, "add_node", node.name, NoName, NoCond, r.raised)
        /\ UNCHANGED graphs
        /\ NoRuns

AddEdge(from_node, to_node, condition) ==
    LET r == add_edge(graph, from_node, to_node,
                      EdgeDefinition(from_node, to_node, condition))
    IN  /\ call.n < MaxCalls
        /\ graph' = r.graph
        /\ call' = ApiCall(call.n + 1, "add_edge", from_node, to_node, condition, r.raised)
        /\ UNCHANGED <<current_iteration, graphs>>
        /\ NoRuns

AddLoop(loop_def) ==
    LET r == add_loop(graph, loop_def)
    IN  /\ call.n < MaxCalls
        /\ graph' = r.graph
        /\ call' = ApiCall(call.n + 1, "add_loop", loop_def.node, NoName,
                           loop_def.condition, r.raised)
        /\ UNCHANGED <<current_iteration, graphs>>
        /\ NoRuns

Validate ==
    LET r == validate(graph)
    IN  /\ call.n < MaxCalls
        /\ graph' = r.graph
        /\ call' = [ApiCall(call.n + 1, "validate", graph.entry_point, NoName,
                            NoCond, r.raised)
                        EXCEPT !.walk = IF r.raised THEN 0 ELSE ValidateWalk(graph).calls]
        /\ UNCHANGED <<current_iteration, graphs>>
        /\ NoRuns

\* Graph(graph_id, name, entry_point=...): the entry point is unset, or a
\* name that may or may not become a node
ApiInit ==
    /\ graph \in {NewGraph(e) : e \in {NoName} \cup ApiNames}
    /\ definition = NoDefinition
    /\ current_iteration = EmptyFun
    /\ runs = [r \in RunIds |-> NewRun(EmptyData)]
    /\ pc = [r \in RunIds |-> "pending"]
    /\ current_node_name = [r \in RunIds |-> NoName]
    /\ active_runs = {}
    /\ raised = [r \in RunIds |-> NoError]
    /\ propagated = [r \in RunIds |-> FALSE]
    /\ sent = [r \in RunIds |-> <<>>]
    /\ stream = [r \in RunIds |-> Observer("off")]
    /\ monitor = [r \in RunIds |-> Observer("off")]
    /\ call = NoCall
    /\ graphs = <<>>
    /\ heap = [r \in RunIds |-> {}]
    /\ storage = NewStorage

ApiNext ==
    \/ \E node \in ApiNodes : AddNode(node)
    \/ \E from_node, to_node \in ApiNames : \E condition \in ApiConds :
          AddEdge(from_node, to_node, condition)
    \/ \E x \in ApiNames : AddLoop(LoopDefinition(x, ExitCountGe2, 1))
    \/ Validate

ApiSpec == ApiInit /\ [][ApiNext]_vars

(***************************************************************************)
(* create_graph (POST /graph/create): build_from_definition, then          *)
(* storage.save_graph.  A ValueError becomes an HTTP 400.                  *)
(***************************************************************************)
\* definitions a client can send: tools that are registered or not, an
\* entry point, edges and loops that name a node or not
CreateDefinitions ==
    {GraphDefinition(e, <<NodeDefinition("A", ta), NodeDefinition("B", tb)>>, ed, l) :
        e \in {"A", "C"}, ta \in {"inc", "missing"}, tb \in {"inc", "missing"},
        ed \in SeqsUpTo({EdgeDefinition("A", "B", NoCond), EdgeDefinition("A", "C", NoCond)}, 1),
        l \in {<<>>, <<LoopDefinition("A", ExitCountGe2, 1)>>,
                     <<LoopDefinition("C", ExitCountGe2, 1)>>}}

\* InMemoryStorage.save_graph
save_graph(saved, g) == Append(saved, g)

CreateGraph(d) ==
    LET r == build_from_definition(d)
    IN  /\ call.n < MaxCalls
        /\ definition' = d
        /\ graphs' = IF r.raised THEN graphs ELSE save_graph(graphs, r.graph)
        /\ call' = ApiCall(call.n + 1, "create_graph", d.entry_point, NoName, NoCond,
                           r.raised)
        /\ UNCHANGED <<graph, current_iteration, runs, pc, current_node_name, active_runs,
                       raised, propagated, obsvars, heap, storage>>

CreateInit ==
    /\ ApiInit
    /\ graph = NewGraph(NoName)

CreateNext == \E d \in CreateDefinitions : CreateGraph(d)

CreateSpec == CreateInit /\ [][CreateNext]_vars

(***************************************************************************)
(* InMemoryStorage: graphs and runs by id, and for each saved graph the    *)
(* list of the ids of its runs.  A dict whose order is read (runs) is kept *)
(* as the sequence of its values; a run object is its run_id and its       *)
(* graph_id.                                                               *)
(***************************************************************************)
StoreGraphIds == {"g1", "g2"}

\* the WorkflowRun objects: every run but the last is a run of graph g1
StoreRun(run_id) ==
    [run_id |-> run_id, graph_id |-> IF run_id = MaxRuns THEN "g2" ELSE "g1"]

\* run_id in self.runs
HasRun(s, run_id) == \E i \in 1..Len(s.runs) : s.runs[i].run_id = run_id

\* InMemoryStorage.get_run, for a stored run
get_run(s, run_id) == s.runs[CHOOSE i \in 1..Len(s.runs) : s.runs[i].run_id = run_id]

\* self.runs[run.run_id] = run: a stored id keeps its place
SetRun(items, run) ==
    IF \E i \in 1..Len(items) : items[i].run_id = run.run_id
    THEN [i \in 1..Len(items) |-> IF items[i].run_id = run.run_id THEN run ELSE items[i]]
    ELSE Append(items, run)

\* [x for x in seq if x not in S]
Without(seq, S) == SelectSeq(seq, LAMBDA x : x \notin S)

\* InMemoryStorage.save_graph: the graph, and an empty run list for it
storage_save_graph(s, graph_id) ==
    [s EXCEPT !.graphs = @ \cup {graph_id},
              !.graph_runs = (graph_id :> <<>>) @@ @]

\* InMemoryStorage.delete_graph
storage_delete_graph(s, graph_id) ==
    IF graph_id \in s.graphs
    THEN [s EXCEPT !.graphs = @ \ {graph_id},
                   !.graph_runs = [x \in DOMAIN @ \ {graph_id} |-> @[x]]]
    ELSE s

\* InMemoryStorage.save_run
save_run(s, run) ==
    LET s1 == [s EXCEPT !.runs = SetRun(@, run)]
    IN  IF run.graph_id \in DOMAIN s.graph_runs
        THEN [s1 EXCEPT !.graph_runs[run.graph_id] = Append(@, run.run_id)]
        ELSE s1

\* InMemoryStorage.update_run
update_run(s, run) ==
    IF HasRun(s, run.run_id) THEN [s EXCEPT !.runs = SetRun(@, run)] ELSE s

\* InMemoryStorage.delete_run
delete_run(s, run_id) ==
    IF HasRun(s, run_id)
    THEN LET run == get_run(s, run_id)
             s1 == [s EXCEPT !.runs = Without(@, {run})]
         IN  IF run.graph_id \in DOMAIN s.graph_runs
             THEN [s1 EXCEPT !.graph_runs[run.graph_id] = Without(@, {run_id})]
             ELSE s1
    ELSE s

\* InMemoryStorage.list_runs; NoName is "no graph_id given"
list_runs(s, graph_id) ==
    IF graph_id # NoName
    THEN LET run_ids == IF graph_id \in DOMAIN s.graph_runs
                        THEN s.graph_runs[graph_id] ELSE <<>>
             stored == Without(run_ids, {rid \in RunIds : ~HasRun(s, rid)})
         IN  [i \in 1..Len(stored) |-> get_run(s, stored[i])]
    ELSE s.runs

\* nothing but the storage is touched
StoreOnly ==
    UNCHANGED <<graph, current_iteration, runs, pc, current_node_name, active_runs,
                raised, propagated, definition, obsvars, graphs, heap>>

\* the calls on the storage
SaveGraph(graph_id) ==
    /\ call.n < MaxCalls
    /\ storage' = storage_save_graph(storage, graph_id)
    /\ call' = ApiCall(call.n + 1, "save_graph", graph_id, NoName, NoCond, FALSE)
    /\ StoreOnly

DeleteGraph(graph_id) ==
    /\ call.n < MaxCalls
    /\ storage' = storage_delete_graph(storage, graph_id)
    /\ call' = ApiCall(call.n + 1, "delete_graph", graph_id, NoName, NoCond, FALSE)
    /\ StoreOnly

SaveRun(run) ==
    /\ call.n < MaxCalls
    /\ storage' = save_run(storage, run)
    /\ call' = ApiCall(call.n + 1, "save_run", run.graph_id, NoName, NoCond, FALSE)
    /\ StoreOnly

UpdateRun(run) ==
    /\ call.n < MaxCalls
    /\ storage' = update_run(storage, run)
    /\ call' = ApiCall(call.n + 1, "update_run", run.graph_id, NoName, NoCond, FALSE)
    /\ StoreOnly

DeleteRun(run) ==
    /\ call.n < MaxCalls
    /\ storage' = delete_run(storage, run.run_id)
    /\ call' = ApiCall(call.n + 1, "delete_run", run.graph_id, NoName, NoCond, FALSE)
    /\ StoreOnly

StoreInit ==
    /\ ApiInit
    /\ graph = NewGraph(NoName)

StoreNext ==
    \/ \E graph_id \in StoreGraphIds : SaveGraph(graph_id)
    \/ \E graph_id \in StoreGraphIds : DeleteGraph(graph_id)
    \/ \E r \in RunIds : SaveRun(StoreRun(r))
    \/ \E r \in RunIds : UpdateRun(StoreRun(r))
    \/ \E r \in RunIds : DeleteRun(StoreRun(r))

\* calls on one InMemoryStorage, in any order
StoreSpec == StoreInit /\ [][StoreNext]_vars

(***************************************************************************)
(* ExecutionEngine.stream_execution: an async generator that creates the   *)
(* task running execute_graph and polls the run's log.  It is suspended at *)
(* each yield, while its consumer sends the event, and in asyncio.sleep.   *)
(***************************************************************************)
\* {"type": "log", "data": log_entry.dict()}
LogEvent(entry) == [type |-> "log", entry |-> entry, status |-> ""]

\* {"type": "complete", "data": {"status": run.status, ...}}
CompleteEvent(run) ==
    [type |-> "complete", entry |-> LogEntry(NoName, "", NoDetails), status |-> run.status]

\* a done() that is true as soon as the task has started
TaskDone_started(p) == p # "pending"

\* execution_task.done()
TaskDone(p) == p = "done"

\* a poll that forgets to move last_log_count
Advance_stay(last_log_count, current_log_count) == last_log_count

\* last_log_count = current_log_count
Advance(last_log_count, current_log_count) == current_log_count

\* a close of the generator that cancels the task
OnClose_cancel(p) == "done"

\* the task created by asyncio.create_task when its generator is closed:
\* nothing cancels it
OnClose(p) == p

\* while not execution_task.done(): ... with last_log_count = last and
\* the events out yielded so far, up to the next yield or sleep
StreamWhile(r, last, out) ==
    LET log == runs[r].execution_log
        first == [pc |-> "yield", last_log_count |-> last,
                  current_log_count |-> Len(log), i |-> last + 1]
    IN  IF ~TaskDone(pc[r])
        THEN IF Len(log) > last
             THEN [stream |-> first, sent |-> Append(out, LogEvent(log[last + 1]))]
             ELSE [stream |-> [stream[r] EXCEPT !.pc = "sleep", !.last_log_count = last],
                   sent |-> out]
        ELSE IF Len(log) > last
             THEN [stream |-> [first EXCEPT !.pc = "remaining"],
                   sent |-> Append(out, LogEvent(log[last + 1]))]
             ELSE [stream |-> [stream[r] EXCEPT !.pc = "complete", !.last_log_count = last],
                   sent |-> Append(out, CompleteEvent(runs[r]))]

EngineUnchanged ==
    UNCHANGED <<graph, current_iteration, runs, pc, current_node_name, active_runs,
                raised, propagated, definition, apivars, heap>>

\* the requests come one after another: the observers of the runs before
\* r have finished, and so have those runs
Earlier(r) ==
    \A q \in RunIds :
        q < r => /\ pc[q] = "done"
                 /\ stream[q].pc \in {"off", "end", "closed"}
                 /\ monitor[q].pc \in {"off", "end"}

\* the consumer asks for the first event: asyncio.create_task, then the
\* loop test (the task has not run yet)
StreamStart(r) ==
    /\ stream[r].pc = "new"
    /\ Earlier(r)
    /\ stream' = [stream EXCEPT ![r] = StreamWhile(r, 0, sent[r]).stream]
    /\ sent' = [sent EXCEPT ![r] = StreamWhile(r, 0, sent[r]).sent]
    /\ EngineUnchanged /\ UNCHANGED monitor

\* await asyncio.sleep(0.1) returns: the loop test again
StreamSleep(r) ==
    /\ stream[r].pc = "sleep"
    /\ stream' = [stream EXCEPT ![r] =
                    StreamWhile(r, stream[r].last_log_count, sent[r]).stream]
    /\ sent' = [sent EXCEPT ![r] =
                    StreamWhile(r, stream[r].last_log_count, sent[r]).sent]
    /\ EngineUnchanged /\ UNCHANGED monitor

\* the consumer asks for the next event inside  for i in range(...)  of
\* the polling loop: the next entry, or the end of the batch and the sleep
StreamYield(r) ==
    /\ stream[r].pc = "yield"
    /\ IF stream[r].i < stream[r].current_log_count
       THEN /\ stream' = [stream EXCEPT ![r].i = @ + 1]
            /\ sent' = [sent EXCEPT ![r] =
                           Append(@, LogEvent(runs[r].execution_log[stream[r].i + 1]))]
       ELSE /\ stream' = [stream EXCEPT
                   ![r].pc = "sleep",
                   ![r].last_log_count = Advance(@, stream[r].current_log_count)]
            /\ UNCHANGED sent
    /\ EngineUnchanged /\ UNCHANGED monitor

\* the same inside the loop over the remaining entries, after the task is
\* done: the next entry, or the complete event
StreamRemaining(r) ==
    /\ stream[r].pc = "remaining"
    /\ IF stream[r].i < stream[r].current_log_count
       THEN /\ stream' = [stream EXCEPT ![r].i = @ + 1]
            /\ sent' = [sent EXCEPT ![r] =
                           Append(@, LogEvent(runs[r].execution_log[stream[r].i + 1]))]
       ELSE /\ stream' = [stream EXCEPT ![r].pc = "complete"]
            /\ sent' = [sent EXCEPT ![r] = Append(@, CompleteEvent(runs[r]))]
    /\ EngineUnchanged /\ UNCHANGED monitor

\* the consumer asks for an event after the complete event: the generator
\* returns
StreamEnd(r) ==
    /\ stream[r].pc = "complete"
    /\ stream' = [stream EXCEPT ![r] = Observer("end")]
    /\ EngineUnchanged /\ UNCHANGED <<monitor, sent>>

\* websocket.send_json of the event just yielded raises
\* WebSocketDisconnect: the consumer leaves its  async for , the generator
\* is never resumed and the connection is gone
StreamDisconnect(r) ==
    /\ stream[r].pc \in {"yield", "remaining", "complete"}
    /\ stream' = [stream EXCEPT ![r] = Observer("closed")]
    /\ sent' = [sent EXCEPT ![r] = <<>>]
    /\ pc' = [pc EXCEPT ![r] = OnClose(@)]
    /\ UNCHANGED <<graph, current_iteration, runs, current_node_name, active_runs,
                   raised, propagated, definition, monitor, apivars, heap>>

(***************************************************************************)
(* websocket_monitor_run: attached to a run that execute_graph is running  *)
(* in the background, it sends the log so far, then polls the run.  It is  *)
(* suspended in every send_json and in asyncio.sleep.                      *)
(***************************************************************************)
\* while run.status in ["pending", "running"]: ... with last_log_count =
\* last and the events out sent so far, up to the next send or sleep; the
\* complete event once the loop is left
MonitorWhile(r, last, out) ==
    LET log == runs[r].execution_log
    IN  IF runs[r].status \in {"pending", "running"}
        THEN IF Len(log) > last
             THEN [monitor |-> [pc |-> "send", last_log_count |-> last,
                                current_log_count |-> Len(log), i |-> last + 1],
                   sent |-> Append(out, LogEvent(log[last + 1]))]
             ELSE [monitor |-> [monitor[r] EXCEPT !.pc = "sleep", !.last_log_count = last],
                   sent |-> out]
        ELSE [monitor |-> Observer("end"),
              sent |-> Append(out, CompleteEvent(runs[r]))]

\* a client connects to /monitor/{run_id} while the run is executing:
\* websocket.accept()
MonitorAttach(r) ==
    /\ monitor[r].pc = "new"
    /\ runs[r].status = "running"
    /\ Earlier(r)
    /\ monitor' = [monitor EXCEPT ![r].pc = "replay"]
    /\ EngineUnchanged /\ UNCHANGED <<stream, sent>>

\* for log in run.execution_log: send_json, the list being the run's own;
\* when it is exhausted, last_log_count = len(run.execution_log) and the
\* polling loop
MonitorReplay(r) ==
    /\ monitor[r].pc = "replay"
    /\ LET log == runs[r].execution_log
           next == MonitorWhile(r, Len(log), sent[r])
       IN  IF monitor[r].i < Len(log)
           THEN /\ monitor' = [monitor EXCEPT ![r].i = @ + 1]
                /\ sent' = [sent EXCEPT ![r] = Append(@, LogEvent(log[monitor[r].i + 1]))]
           ELSE /\ monitor' = [monitor EXCEPT ![r] = next.monitor]
                /\ sent' = [sent EXCEPT ![r] = next.sent]
    /\ EngineUnchanged /\ UNCHANGED stream

\* send_json returns inside  for i in range(last_log_count,
\* current_log_count): the next entry, or the end of the batch and the sleep
MonitorSend(r) ==
    /\ monitor[r].pc = "send"
    /\ IF monitor[r].i < monitor[r].current_log_count
       THEN /\ monitor' = [monitor EXCEPT ![r].i = @ + 1]
            /\ sent' = [sent EXCEPT ![r] =
                           Append(@, LogEvent(runs[r].execution_log[monitor[r].i + 1]))]
       ELSE /\ monitor' = [monitor EXCEPT
                   ![r].pc = "sleep",
                   ![r].last_log_count = monitor[r].current_log_count]
            /\ UNCHANGED sent
    /\ EngineUnchanged /\ UNCHANGED stream

\* await asyncio.sleep(0.5) returns: the loop test again
MonitorSleep(r) ==
    /\ monitor[r].pc = "sleep"
    /\ monitor' = [monitor EXCEPT ![r] =
                     MonitorWhile(r, monitor[r].last_log_count, sent[r]).monitor]
    /\ sent' = [sent EXCEPT ![r] =
                     MonitorWhile(r, monitor[r].last_log_count, sent[r]).sent]
    /\ EngineUnchanged /\ UNCHANGED stream

\* every run is executed by stream_execution, or every run in the
\* background, with a monitor to come for the first
ObsInit ==
    /\ Setup(ObsDefinitions, {})
    /\ \/ /\ stream = [r \in RunIds |-> Observer("new")]
          /\ monitor = [r \in RunIds |-> Observer("off")]
       \/ /\ stream = [r \in RunIds |-> Observer("off")]
          /\ monitor = [r \in RunIds |-> Observer(IF r = 1 THEN "new" ELSE "off")]

ObsNext ==
    \E r \in RunIds :
        \/ Begin(r)
        \/ Top(r)
        \/ Exec(r)
        \/ Sleep(r)
        \/ StreamStart(r)
        \/ StreamSleep(r)
        \/ StreamYield(r)
        \/ StreamRemaining(r)
        \/ StreamEnd(r)
        \/ StreamDisconnect(r)
        \/ MonitorAttach(r)
        \/ MonitorReplay(r)
        \/ MonitorSend(r)
        \/ MonitorSleep(r)

\* runs executed one after another, each with its observer
ObsSpec == ObsInit /\ [][ObsNext]_vars

(***************************************************************************)
(* Properties.  They read the graph definition and the run records; what   *)
(* the engine should have done is computed here from the definition, not   *)
(* with the operators that model the graph and the engine (the comparison  *)
(* operators of Python apart).                                             *)
(***************************************************************************)
Log(r) == runs[r].execution_log
LastEntry(r) == Log(r)[Len(Log(r))]

\* the node and action of every entry of a log
Shape(log) == [i \in 1..Len(log) |-> <<log[i].node, log[i].action>>]

\* the positions of a log holding an entry of this node and action
Positions(log, node, action) ==
    {i \in 1..Len(log) : log[i].node = node /\ log[i].action = action}

\* the declared edges out of a node, in declaration order
RECURSIVE DeclaredFrom(_, _)
DeclaredFrom(edges, name) ==
    IF edges = <<>> THEN <<>>
    ELSE IF Head(edges).from_node = name
    THEN <<Head(edges)>> \o DeclaredFrom(Tail(edges), name)
    ELSE DeclaredFrom(Tail(edges), name)

\* the targets declared for a node
DeclaredTargets(d, name) ==
    {DeclaredFrom(d.edges, name)[i].to_node : i \in 1..Len(DeclaredFrom(d.edges, name))}

\* the nodes met by following the only successor, from name, for at most
\* fuel nodes
RECURSIVE ChainFrom(_, _, _)
ChainFrom(d, name, fuel) ==
    IF fuel = 0 THEN <<>>
    ELSE IF DeclaredTargets(d, name) = {} THEN <<name>>
    ELSE <<name>> \o ChainFrom(d, CHOOSE t \in DeclaredTargets(d, name) : TRUE, fuel - 1)

Chain(d) == ChainFrom(d, d.entry_point, Len(d.nodes))

\* no loops, no conditional edges, at most one successor per node, and the
\* chain from the entry point ends at a node without successors
IsChainDefinition(d) ==
    /\ d # NoDefinition
    /\ d.loops = <<>>
    /\ \A i \in 1..Len(d.edges) : d.edges[i].condition = NoCond
    /\ \A i \in 1..Len(d.nodes) : Cardinality(DeclaredTargets(d, d.nodes[i].name)) <= 1
    /\ DeclaredTargets(d, Chain(d)[Len(Chain(d))]) = {}

\* started X, completed X for each node X of a sequence
ChainLog(chain) ==
    [i \in 1..(2 * Len(chain)) |->
        IF i % 2 = 1 THEN <<chain[(i + 1) \div 2], "started">>
        ELSE <<chain[i \div 2], "completed">>]

\* C1: on a graph without loops and conditional edges whose nodes have at
\* most one successor and whose chain from the entry point ends, a run in
\* which no step function raises executes the chain in order: its log is
\* started X, completed X for each node X of the chain and nothing else,
\* and it ends completed.
C1_ChainRunsInOrder ==
    \A r \in RunIds :
        (IsChainDefinition(definition) /\ pc[r] = "done" /\ raised[r].where # "tool")
            => /\ runs[r].status = "completed"
               /\ Shape(Log(r)) = ChainLog(Chain(definition))

\* a finished run of a chain of three nodes
C1_Witness ==
    \E r \in RunIds :
        /\ IsChainDefinition(definition)
        /\ Len(Chain(definition)) = 3
        /\ pc[r] = "done"
        /\ raised[r].where # "tool"
        /\ Len(Log(r)) = 6

\* the nodes with a loop declaration (the LoopNode objects of the graph)
LoopNodes(d) == {d.loops[i].node : i \in 1..Len(d.loops)}

\* the declaration a LoopNode is built from: the first one for the node
LoopDecl(d, name) ==
    d.loops[CHOOSE i \in 1..Len(d.loops) :
                /\ d.loops[i].node = name
                /\ \A j \in 1..(i - 1) : d.loops[j].node # name]

\* a condition is true of state data
Holds(condition, data) ==
    ApplyOperator(IF data[condition.field] = Absent THEN PyNone ELSE data[condition.field],
                  condition) = "true"

\* the exit condition of L was true after none of its passes in a log
NeverExitCondition(d, L, log) ==
    \A i \in Positions(log, L, "completed") :
        ~Holds(LoopDecl(d, L).condition, log[i].details.state_snapshot)

\* C2: in every run, the first or a later one on the same graph, a Loop
\* node that exits without its exit condition ever being true has been
\* executed exactly max_iterations times in that run, and no Loop node is
\* executed more than max_iterations times in one run.
C2_CapExactInEveryRun ==
    \A r \in RunIds : \A L \in LoopNodes(definition) :
        /\ Cardinality(Positions(Log(r), L, "started")) <= LoopDecl(definition, L).max_iterations
        /\ (Positions(Log(r), L, "loop_exited") # {} /\ NeverExitCondition(definition, L, Log(r)))
              => Cardinality(Positions(Log(r), L, "completed"))
                    = LoopDecl(definition, L).max_iterations

Min(S) == CHOOSE x \in S : \A y \in S : x <= y
Max(S) == CHOOSE x \in S : \A y \in S : x >= y

\* the passes of L in a log after which its exit condition was true
ExitingPasses(d, L, log) ==
    {i \in Positions(log, L, "completed") :
        Holds(LoopDecl(d, L).condition, log[i].details.state_snapshot)}

\* C3: for a Loop node L that is its own successor, when the exit condition
\* is first true of the state after the k-th pass of a run, the run has
\* executed L exactly k times, logged loop_continued after each of the
\* first k-1 passes and loop_exited with reason condition_met as its last
\* entry, and it ends completed with the state the k-th pass produced.
C3_ExitOnCondition ==
    \A r \in RunIds : \A L \in LoopNodes(definition) :
        (L \in DeclaredTargets(definition, L) /\ ExitingPasses(definition, L, Log(r)) # {})
            => LET log == Log(r)
                   passes == Positions(log, L, "completed")
                   k == Min(ExitingPasses(definition, L, log))
               IN  /\ k = Max(passes)
                   /\ Cardinality(Positions(log, L, "started")) = Cardinality(passes)
                   /\ \A i \in passes \ {k} :
                        log[i + 1].node = L /\ log[i + 1].action = "loop_continued"
                   /\ Len(log) = k + 1
                   /\ log[k + 1].node = L
                   /\ log[k + 1].action = "loop_exited"
                   /\ log[k + 1].details.reason = "condition_met"
                   /\ runs[r].status # "failed"
                   /\ pc[r] = "done" =>
                        /\ runs[r].status = "completed"
                        /\ runs[r].state.data = log[k].details.state_snapshot

\* a finished run that left a self-loop on its second pass, the exit
\* condition having become true
C3_Witness ==
    \E r \in RunIds : \E L \in LoopNodes(definition) :
        /\ L \in DeclaredTargets(definition, L)
        /\ ExitingPasses(definition, L, Log(r)) # {}
        /\ Cardinality(Positions(Log(r), L, "completed")) = 2
        /\ pc[r] = "done"

\* the conditional edges declared out of a node, in declaration order
DeclaredGuards(d, name) ==
    SelectSeq(DeclaredFrom(d.edges, name), LAMBDA e : e.condition # NoCond)

\* the target of the first declared conditional edge whose condition is
\* true of the data; NoName when there is none, or when a later declaration
\* for the same target replaced that condition
FirstTrueDeclared(d, name, data) ==
    LET g == DeclaredGuards(d, name)
        T == {i \in 1..Len(g) : Holds(g[i].condition, data)}
    IN  IF T = {} THEN NoName
        ELSE IF \E j \in (Min(T) + 1)..Len(g) : g[j].to_node = g[Min(T)].to_node
        THEN NoName
        ELSE g[Min(T)].to_node

\* the same, a target declared several times counting once: at its first
\* declaration, and with the condition of its last one
FirstTrueTarget(d, name, data) ==
    LET g == DeclaredGuards(d, name)
        last(i) == Max({j \in 1..Len(g) : g[j].to_node = g[i].to_node})
        T == {i \in 1..Len(g) :
                /\ \A j \in 1..(i - 1) : g[j].to_node # g[i].to_node
                /\ Holds(g[last(i)].condition, data)}
    IN  IF T = {} THEN NoName ELSE g[Min(T)].to_node

\* call r has just resolved the next node after a node that did not exit a loop
Resolved(r) ==
    /\ pc[r] = "sleep"
    /\ LastEntry(r).action # "loop_exited"

\* C4 as stated: the next node is the target of the first guard, in the
\* order the conditional edges were declared, whose condition is true of
\* the state.
C4_FirstDeclaredGuardWins ==
    \A r \in RunIds :
        (Resolved(r)
         /\ FirstTrueDeclared(definition, runs[r].current_node, runs[r].state.data) # NoName)
            => current_node_name[r]
                = FirstTrueDeclared(definition, runs[r].current_node, runs[r].state.data)

\* C4 amended: the next node is the target of the first guard whose
\* condition is true of the state, the guards being ordered by the first
\* conditional declaration of their target and a target declared again
\* keeping its place with the condition declared last; the order of the
\* plain successor list does not matter.
C4_FirstGuardInTableWins ==
    \A r \in RunIds :
        (Resolved(r)
         /\ FirstTrueTarget(definition, runs[r].current_node, runs[r].state.data) # NoName)
            => current_node_name[r]
                = FirstTrueTarget(definition, runs[r].current_node, runs[r].state.data)

\* the state satisfies the guards of two targets, and the plain successor
\* list starts with the target of the later one
C4_Witness ==
    \E r \in RunIds :
        LET X == runs[r].current_node
            g == DeclaredGuards(definition, X)
        IN  /\ Resolved(r)
            /\ Len(g) = 2
            /\ g[1].to_node # g[2].to_node
            /\ g[1].condition # g[2].condition
            /\ Holds(g[1].condition, runs[r].state.data)
            /\ Holds(g[2].condition, runs[r].state.data)
            /\ DeclaredFrom(definition.edges, X)[1].to_node = g[2].to_node
            /\ current_node_name[r] = g[1].to_node

\* C5: when the node just executed has at least one declared successor and
\* none of its guards is true of the state (in particular when it has
\* several plain successors and no guards), the next node is the first
\* entry of its plain successor list: the target of its first declared edge.
C5_FallbackToFirstSuccessor ==
    \A r \in RunIds :
        LET X == runs[r].current_node
        IN  (/\ definition # NoDefinition
             /\ Resolved(r)
             /\ DeclaredFrom(definition.edges, X) # <<>>
             /\ FirstTrueTarget(definition, X, runs[r].state.data) = NoName)
                => current_node_name[r] = DeclaredFrom(definition.edges, X)[1].to_node

\* a node with two successors and a guard, no guard being true: the run
\* goes on with the first declared successor
C5_Witness ==
    \E r \in RunIds :
        LET X == runs[r].current_node
        IN  /\ definition # NoDefinition
            /\ Resolved(r)
            /\ Cardinality(DeclaredTargets(definition, X)) = 2
            /\ DeclaredGuards(definition, X) # <<>>
            /\ FirstTrueTarget(definition, X, runs[r].state.data) = NoName
            /\ current_node_name[r] = DeclaredFrom(definition.edges, X)[1].to_node

\* C6: when the step function of node X raises, the run ends failed,
\* run.error is the raised message, the last log entry is an error entry
\* for X carrying that message, the entry before it is the started entry of
\* that visit of X (so the visit has no completed entry), and nothing is
\* logged for any node after X.
C6_StepFailureFailsRun ==
    \A r \in RunIds :
        raised[r].where = "tool"
            => LET log == Log(r)
                   n == Len(log)
                   X == current_node_name[r]
               IN  /\ pc[r] = "done"
                   /\ runs[r].status = "failed"
                   /\ runs[r].error = raised[r].message
                   /\ n >= 2
                   /\ log[n].node = X
                   /\ log[n].action = "error"
                   /\ log[n].details.error = raised[r].message
                   /\ log[n - 1].node = X
                   /\ log[n - 1].action = "started"
                   /\ \A i \in 1..(n - 1) : log[i].action # "error"

\* the step function of the second node of a run raised, and that node has
\* a successor
C6_Witness ==
    \E r \in RunIds :
        /\ raised[r].where = "tool"
        /\ definition # NoDefinition
        /\ DeclaredFrom(definition.edges, current_node_name[r]) # <<>>
        /\ Len(Log(r)) = 4
        /\ LastEntry(r).action = "error"

\* C7: every call of execute_graph returns the run with status completed
\* or failed and propagates no exception to its caller, whatever was raised
\* during execution: by get_node for a missing node, by a step function,
\* or by the loop bookkeeping (the evaluation of the exit condition); an
\* exception raised inside the call leaves the run failed.
C7_AlwaysReturnsTerminalRun ==
    \A r \in RunIds :
        /\ pc[r] = "done" => (runs[r].status \in {"completed", "failed"} /\ ~propagated[r])
        /\ raised[r] # NoError => (pc[r] = "done" /\ runs[r].status = "failed")

\* a call has returned a failed run, the evaluation of an exit condition
\* having raised a TypeError
C7_Witness ==
    \E r \in RunIds :
        /\ pc[r] = "done"
        /\ raised[r].where = "should_exit_loop"
        /\ runs[r].status = "failed"
        /\ ~propagated[r]

\* every completed entry of a log directly follows the started entry of
\* the same node
CompletedFollowsStarted(log) ==
    \A i \in 1..Len(log) :
        log[i].action = "completed"
            => /\ i > 1
               /\ log[i - 1].node = log[i].node
               /\ log[i - 1].action = "started"

C9_LoopExitEndsRun ==
    \A r \in RunIds :
        LET log == Log(r)
        IN  /\ \A i \in 1..Len(log) :
                  log[i].action = "loop_exited"
                      => /\ i = Len(log)
                         /\ pc[r] \in {"sleep", "top", "done"}
                         /\ pc[r] # "done" => current_node_name[r] = NoName
                         /\ runs[r].status # "failed"
                         /\ pc[r] = "done" => runs[r].status = "completed"
            /\ \A L \in LoopNodes(definition) : \A i \in ExitingPasses(definition, L, log) :
                  /\ i < Len(log)
                  /\ log[i + 1].node = L
                  /\ log[i + 1].action = "loop_exited"

\* a finished run whose Loop node exited, the node having a successor
\* other than itself that resolution selected
C9_Witness ==
    \E r \in RunIds : \E L \in LoopNodes(definition) :
        /\ pc[r] = "done"
        /\ runs[r].status = "completed"
        /\ LastEntry(r).node = L
        /\ LastEntry(r).action = "loop_exited"
        /\ DeclaredFrom(definition.edges, L) # <<>>
        /\ DeclaredFrom(definition.edges, L)[1].to_node # L
        /\ graph.edges[L][1] # L

\* the log of run r ends with the loop_exited entry of L
ExitedLoop(r, L) ==
    /\ Log(r) # <<>>
    /\ LastEntry(r).node = L
    /\ LastEntry(r).action = "loop_exited"

\* C10: once the loop_exited entry of Loop node L is appended in a run, the
\* counter of L is 0 and stays 0 until a later run passes through L; in the
\* run that follows on the same graph, each started entry of L carries the
\* number of passes that run has made so far (0 for the first), and L
\* exits on the cap only after max_iterations passes of that run.
C10_CounterResetOnExit ==
    \A r \in RunIds : \A L \in LoopNodes(definition) :
        ExitedLoop(r, L)
            => /\ (\A q \in RunIds : q > r => Positions(Log(q), L, "completed") = {})
                    => current_iteration[L] = 0
               /\ (r + 1) \in RunIds
                    => LET log == Log(r + 1)
                           passes == Positions(log, L, "completed")
                       IN  /\ \A i \in Positions(log, L, "started") :
                                 log[i].details.iteration
                                    = Cardinality({j \in passes : j < i})
                           /\ Cardinality(Positions(log, L, "started"))
                                 <= LoopDecl(definition, L).max_iterations
                           /\ (ExitedLoop(r + 1, L) /\ NeverExitCondition(definition, L, log))
                                 => Cardinality(passes) = LoopDecl(definition, L).max_iterations

\* a Loop node exits in one run, and in the next run on the same graph is
\* passed through twice, from iteration 0, before it exits on the cap
C10_Witness ==
    \E L \in LoopNodes(definition) :
        /\ ExitedLoop(1, L)
        /\ ExitedLoop(2, L)
        /\ NeverExitCondition(definition, L, Log(2))
        /\ Cardinality(Positions(Log(2), L, "started")) = 2
        /\ Log(2)[1].details.iteration = 0
        /\ current_iteration[L] = 0

\* the log entries of the log events delivered for run r, in order
SentEntries(r) ==
    LET logs == SelectSeq(sent[r], LAMBDA e : e.type = "log")
    IN  [i \in 1..Len(logs) |-> logs[i].entry]

\* run r is executed by stream_execution and its consumer is there
Streamed(r) == stream[r].pc \in {"sleep", "yield", "remaining", "complete", "end"}

\* C11: the log events stream_execution has yielded are, at every moment
\* and for every interleaving of engine steps and polls, the first entries
\* of the run's log in log order, each once; when the stream has been
\* consumed to its end they are the run's final log.
C11_StreamYieldsLog ==
    \A r \in RunIds :
        Streamed(r)
            => /\ Len(SentEntries(r)) <= Len(Log(r))
               /\ SentEntries(r) = SubSeq(Log(r), 1, Len(SentEntries(r)))
               /\ stream[r].pc \in {"complete", "end"}
                    => (pc[r] = "done" /\ SentEntries(r) = Log(r))

\* a stream consumed to its end, of a run that logged six entries or more
\* and ended completed
C11_Witness ==
    \E r \in RunIds :
        /\ stream[r].pc = "end"
        /\ Len(Log(r)) >= 6
        /\ SentEntries(r) = Log(r)
        /\ runs[r].status = "completed"

\* the complete events delivered for run r: their positions
Completes(r) == {i \in 1..Len(sent[r]) : sent[r][i].type = "complete"}

\* C13: stream_execution yields one complete event and no more; it is the
\* last event, every entry of the log has been yielded before it, and the
\* status it carries is the terminal status of the run, completed or
\* failed.
C13_OneCompleteEventLast ==
    \A r \in RunIds :
        Streamed(r)
            => /\ \A i \in Completes(r) :
                    /\ i = Len(sent[r])
                    /\ i = Len(Log(r)) + 1
                    /\ sent[r][i].status \in {"completed", "failed"}
                    /\ sent[r][i].status = runs[r].status
               /\ stream[r].pc \in {"complete", "end"} <=> Completes(r) # {}

\* a stream consumed to its end whose complete event says failed
C13_Witness ==
    \E r \in RunIds :
        /\ stream[r].pc = "end"
        /\ Completes(r) = {Len(sent[r])}
        /\ sent[r][Len(sent[r])].status = "failed"
        /\ Len(sent[r]) >= 3

\* websocket_monitor_run is attached to run r
Monitored(r) == monitor[r].pc \in {"replay", "send", "sleep", "end"}

\* C12: the log events websocket_monitor_run has sent for a run it was
\* attached to while the run was executing are, at every moment, the first
\* entries of the run's log in log order, each once; and when it sends the
\* complete event it has sent every entry of the log, those appended while
\* it slept between two polls included.
C12_MonitorSendsLog ==
    \A r \in RunIds :
        Monitored(r)
            => /\ Len(SentEntries(r)) <= Len(Log(r))
               /\ SentEntries(r) = SubSeq(Log(r), 1, Len(SentEntries(r)))
               /\ Completes(r) # {} => SentEntries(r) = Log(r)

\* run r found every loop counter at 0: each earlier run that passed
\* through a Loop node left it by a loop exit
StartsFresh(r) ==
    \A q \in RunIds : \A L \in LoopNodes(definition) :
        (q < r /\ Positions(Log(q), L, "completed") # {}) => ExitedLoop(q, L)

\* C14: a run whose consumer disconnected goes on executing, and ends with
\* the status, state and log of a run whose stream was consumed to the
\* end (the two runs are given the same graph, loop counters, initial data
\* and step functions, so that they differ by the disconnection only).
C14_DisconnectLeavesRunAlone ==
    \A r, q \in RunIds :
        /\ (stream[q].pc = "closed" /\ pc[q] # "done") => runs[q].status = "running"
        /\ (/\ stream[r].pc = "end"
            /\ stream[q].pc = "closed"
            /\ pc[r] = "done"
            /\ pc[q] = "done"
            /\ StartsFresh(r)
            /\ StartsFresh(q))
              => /\ runs[q].status = runs[r].status
                 /\ runs[q].state = runs[r].state
                 /\ Log(q) = Log(r)

\* the consumer of the second run disconnected and the run has ended,
\* after four log entries or more, like the first run, whose stream was
\* consumed to the end
C14_Witness ==
    /\ stream[1].pc = "end"
    /\ stream[2].pc = "closed"
    /\ StartsFresh(2)
    /\ pc[2] = "done"
    /\ Len(Log(2)) >= 4
    /\ Log(2) = Log(1)

\* every Loop node of the definition has itself as its only successor: a
\* run passes through it until the loop exits, which resets its counter
OnlySelfLoops(d) ==
    \A L \in LoopNodes(d) : DeclaredTargets(d, L) = {L}

\* the finished runs have the same log and status
RunsAgree ==
    \A r, q \in RunIds :
        (pc[r] = "done" /\ pc[q] = "done")
            => /\ runs[r].status = runs[q].status
               /\ Log(r) = Log(q)

\* C15: runs of the same graph that interleave at the engine's yield
\* points visit the nodes, log and end as they do alone.  The runs are
\* given the same initial data and step functions that depend on the state
\* only, on a graph whose Loop nodes a run alone always leaves at counter
\* 0, so that alone they all have the same log and status: interleaved
\* they must have them too.
C15_InterleavingInvisible ==
    OnlySelfLoops(definition) => RunsAgree

\* C16: no step of a run changes the Graph object: its nodes, edges,
\* conditional edges, loop declarations, and the iteration counter of each
\* of its Loop nodes.
C16_GraphUnchanged ==
    [][graph' = graph /\ current_iteration' = current_iteration]_vars

\* C17: once the status of a run is completed or failed, no later step
\* changes the run: status, state, log, current node, error and timestamps
\* stay as they are.
C17_TerminalRunUnchanged ==
    [][\A r \in RunIds :
          runs[r].status \in {"completed", "failed"} => runs'[r] = runs[r]]_vars

\* a run has failed and the next one is executing a node
C17_Witness ==
    \E r, q \in RunIds :
        /\ runs[r].status = "failed"
        /\ Len(Log(r)) >= 3
        /\ pc[q] = "exec"
        /\ Len(Log(q)) >= 3

\* the step functions of the definition depend on the state only
Deterministic(d) ==
    \A i \in 1..Len(d.nodes) : d.nodes[i].tool \in {"inc", "noop", "replace"}

\* C18: every started run ends.  On a graph without Loop nodes whose step
\* functions depend on the state only, what a run does next is determined
\* by the node it has completed and the state; so a run that ends never
\* completes the same node twice with the same state.
C18_NoRunRepeatsItself ==
    \A r \in RunIds :
        (definition # NoDefinition /\ definition.loops = <<>> /\ Deterministic(definition))
            => \A i, j \in 1..Len(Log(r)) :
                  (/\ i < j
                   /\ Log(r)[i].action = "completed"
                   /\ Log(r)[j].action = "completed"
                   /\ Log(r)[i].node = Log(r)[j].node)
                      => Log(r)[i].details.state_snapshot
                            # Log(r)[j].details.state_snapshot

\* the evaluation of a condition on state data raises
Faults(condition, data) ==
    ApplyOperator(IF data[condition.field] = Absent THEN PyNone ELSE data[condition.field],
                  condition) = "raise"

\* the guards of a node's guard table: for each target, its last
\* conditional declaration
TableGuards(d, name) ==
    LET g == DeclaredGuards(d, name)
    IN  {g[i] : i \in {k \in 1..Len(g) :
                         \A j \in (k + 1)..Len(g) : g[j].to_node # g[k].to_node}}

\* C19: when the evaluation of a guard of the node just executed faults
\* (the field is absent or not comparable with the literal), the guard
\* counts as false: the next node is the target of the first guard that is
\* true, or else the first declared successor, and nothing is raised in
\* the run.
C19_GuardFaultCountsFalse ==
    \A r \in RunIds :
        LET X == runs[r].current_node
            data == runs[r].state.data
        IN  (/\ definition # NoDefinition
             /\ pc[r] = "sleep"
             /\ LastEntry(r).action = "completed"
             /\ \E g \in TableGuards(definition, X) : Faults(g.condition, data))
                => /\ raised[r] = NoError
                   /\ runs[r].status = "running"
                   /\ current_node_name[r] =
                        IF FirstTrueTarget(definition, X, data) # NoName
                        THEN FirstTrueTarget(definition, X, data)
                        ELSE DeclaredFrom(definition.edges, X)[1].to_node

\* the first guard faults, the second is true and its target, which is
\* not the first successor, is the next node
C19_Witness ==
    \E r \in RunIds :
        LET X == runs[r].current_node
            g == DeclaredGuards(definition, X)
        IN  /\ definition # NoDefinition
            /\ pc[r] = "sleep"
            /\ LastEntry(r).action = "completed"
            /\ Len(g) = 2
            /\ g[1].to_node # g[2].to_node
            /\ Faults(g[1].condition, runs[r].state.data)
            /\ Holds(g[2].condition, runs[r].state.data)
            /\ current_node_name[r] = g[2].to_node
            /\ DeclaredFrom(definition.edges, X)[1].to_node = g[1].to_node

\* C20: when the evaluation of a Loop node's exit condition faults on the
\* state a pass produced, the condition counts as false: the entry that
\* follows the pass is loop_continued, or loop_exited when the cap is
\* reached, and the run does not fail there.
C20_ExitFaultCountsFalse ==
    \A r \in RunIds : \A L \in LoopNodes(definition) :
        \A i \in Positions(Log(r), L, "completed") :
            Faults(LoopDecl(definition, L).condition, Log(r)[i].details.state_snapshot)
                => /\ i < Len(Log(r))
                   /\ Log(r)[i + 1].action \in {"loop_continued", "loop_exited"}

(***************************************************************************)
(* Properties of the construction of graphs.                               *)
(***************************************************************************)
\* the names a graph refers to: sources and successors in edges, sources
\* and targets in conditional_edges, keys of loop_definitions
Referenced(g) ==
    DOMAIN g.edges
        \cup UNION {{g.edges[x][i] : i \in 1..Len(g.edges[x])} : x \in DOMAIN g.edges}
        \cup DOMAIN g.conditional_edges
        \cup UNION {{g.conditional_edges[x][i].to : i \in 1..Len(g.conditional_edges[x])} :
                        x \in DOMAIN g.conditional_edges}
        \cup DOMAIN g.loop_definitions

\* C21: after any sequence of add_node, add_edge and add_loop calls, the
\* failing ones included, every name the graph refers to in edges,
\* conditional_edges and loop_definitions is a key of nodes; and when
\* validate has returned, the entry point is a key of nodes.
C21_ReferencedNamesAreNodes ==
    /\ Referenced(graph) \subseteq DOMAIN graph.nodes
    /\ (call.op = "validate" /\ ~call.raised) => graph.entry_point \in DOMAIN graph.nodes

\* validate returns on a graph of one node with a plain edge, a conditional
\* edge and a loop declaration
C21_Witness ==
    /\ call.op = "validate"
    /\ ~call.raised
    /\ call.n = MaxCalls
    /\ Cardinality(DOMAIN graph.nodes) = 1
    /\ DOMAIN graph.conditional_edges # {}
    /\ DOMAIN graph.loop_definitions # {}

\* C22: add_node with a name that is already a node raises and leaves the
\* graph as it was: the node object under that name (its iteration counter
\* included), its successor list, its conditional edges and its loop
\* declaration.
C22_DuplicateNodeRejected ==
    [][(/\ call'.n = call.n + 1
        /\ call'.op = "add_node"
        /\ call'.name \in DOMAIN graph.nodes)
          => /\ call'.raised
             /\ graph' = graph
             /\ current_iteration' = current_iteration]_vars

\* add_node has failed on a node that has a successor, a conditional edge
\* and a loop declaration
C22_Witness ==
    /\ call.op = "add_node"
    /\ call.raised
    /\ graph.edges[call.name] # <<>>
    /\ call.name \in DOMAIN graph.conditional_edges
    /\ call.name \in DOMAIN graph.loop_definitions

\* C23: add_edge raises when its source or its target is not a node, and
\* add_loop raises when its node is not a node, and then edges,
\* conditional_edges and loop_definitions are as before; an add_edge that
\* returns has put the target in the source's successor list and, when a
\* condition was supplied, has registered the target with that condition
\* in the source's conditional edges.
C23_EdgeAndLoopCalls ==
    [][call'.n = call.n + 1 =>
        LET c == call'
            missing == \/ c.name \notin DOMAIN graph.nodes
                       \/ (c.op = "add_edge" /\ c.to \notin DOMAIN graph.nodes)
        IN  /\ (c.op \in {"add_edge", "add_loop"} /\ missing)
                  => /\ c.raised
                     /\ graph'.edges = graph.edges
                     /\ graph'.conditional_edges = graph.conditional_edges
                     /\ graph'.loop_definitions = graph.loop_definitions
            /\ (c.op = "add_edge" /\ ~c.raised)
                  => /\ \E i \in 1..Len(graph'.edges[c.name]) :
                            graph'.edges[c.name][i] = c.to
                     /\ c.condition # NoCond
                          => /\ c.name \in DOMAIN graph'.conditional_edges
                             /\ \E i \in 1..Len(graph'.conditional_edges[c.name]) :
                                   /\ graph'.conditional_edges[c.name][i].to = c.to
                                   /\ graph'.conditional_edges[c.name][i].def.condition
                                        = c.condition]_vars

\* add_edge has returned after registering a condition for a second
\* successor of its source
C23_Witness ==
    /\ call.op = "add_edge"
    /\ ~call.raised
    /\ call.condition # NoCond
    /\ Len(graph.edges[call.name]) = 2
    /\ Len(graph.conditional_edges[call.name]) = 2
    /\ graph.conditional_edges[call.name][2].to = call.to

\* number of successor entries of a graph
RECURSIVE Successors(_, _)
Successors(g, names) ==
    IF names = {} THEN 0
    ELSE LET x == CHOOSE x \in names : TRUE
         IN  Len(g.edges[x]) + Successors(g, names \ {x})

\* C24: validate raises exactly when the entry point is unset or is not a
\* node.  On every other graph, with or without cycles and loop
\* declarations, it returns, after a walk of at most one has_cycle
\* invocation for the entry point and one for each successor entry; and it
\* changes nothing in the graph.
C24_ValidateEntryPointOnly ==
    [][(call'.n = call.n + 1 /\ call'.op = "validate")
          => /\ call'.raised <=> (\/ graph.entry_point = NoName
                                  \/ graph.entry_point \notin DOMAIN graph.nodes)
             /\ ~call'.raised
                  => /\ call'.walk >= 1
                     /\ call'.walk <= 1 + Successors(graph, DOMAIN graph.edges)
             /\ graph' = graph
             /\ current_iteration' = current_iteration]_vars

\* validate has returned on a graph with the cycle A -> B -> A and no loop
\* declaration
C24_Witness ==
    /\ call.op = "validate"
    /\ ~call.raised
    /\ DOMAIN graph.nodes = {"A", "B"}
    /\ graph.edges["A"] = <<"B">>
    /\ graph.edges["B"] = <<"A">>
    /\ graph.loop_definitions = EmptyFun
    /\ call.walk = 3

\* the status changes a step may make
StatusSteps ==
    {<<"pending", "running">>, <<"running", "completed">>, <<"running", "failed">>}

\* C25: the status of a run changes only from pending to running, and
\* from running to completed or to failed; it is never cancelled.  While
\* the status is pending no node has executed (the log is empty); the
\* status becomes completed only when the node loop has ended and nothing
\* was raised: the log has no error entry and ends with the entries of a
\* node that has finished (completed, loop_continued or loop_exited).
C25_StatusTransitions ==
    [][\A r \in RunIds :
          LET a == runs[r].status
              b == runs'[r].status
              log == runs'[r].execution_log
          IN  /\ a # b => <<a, b>> \in StatusSteps
              /\ b # "cancelled"
              /\ b = "pending" => log = <<>>
              /\ (a # b /\ b = "completed")
                    => /\ raised'[r] = NoError
                       /\ log # <<>>
                       /\ log[Len(log)].action \in {"completed", "loop_continued", "loop_exited"}
                       /\ \A i \in 1..Len(log) : log[i].action # "error"]_vars

\* one run has completed and the next one has failed
C25_Witness ==
    \E r, q \in RunIds :
        /\ runs[r].status = "completed"
        /\ runs[q].status = "failed"
        /\ Len(Log(q)) >= 3

\* what reading a dict of state data gives: a reference stands for the
\* contents of the list object of run r
Read(data, r) ==
    [k \in Keys |-> IF data[k] = PyListRef THEN PyList(heap[r]) ELSE data[k]]

\* C26: the state snapshot of a completed log entry reads as the state
\* data did when the entry was appended, and a later step does not change
\* what it reads as, also when the step changes a list that was in the
\* state data at that time.
C26_SnapshotIsValueCopy ==
    [][\A r \in RunIds : \A i \in 1..Len(Log(r)) :
          Log(r)[i].action = "completed"
              => Read(Log(r)[i].details.state_snapshot, r)'
                    = Read(Log(r)[i].details.state_snapshot, r)]_vars

\* the map a step function returns on state data, for the step functions
\* that return a map
ReturnedMap(tool, data) ==
    IF tool \in {"inc", "flaky"}
    THEN [EmptyData EXCEPT !["count"] =
            PyInt((IF data["count"] = Absent THEN 0 ELSE data["count"].n) + 1)]
    ELSE EmptyData

\* the state object the step function "replace" returns
ReturnedState == [data |-> [EmptyData EXCEPT !["flag"] = PyInt(1)], metadata |-> 1]

\* C27: when a step has returned a map, the state data after the step is the
\* data before it overridden key by key by the map, the keys absent from
\* the map keeping their values, and metadata is unchanged; when it has
\* returned a state object, that object is the state of the run.
C27_StepResultMerged ==
    [][\A r \in RunIds :
          LET n == Len(Log(r))
              log == runs'[r].execution_log
              tool == graph.nodes[runs[r].current_node].tool
              pre == runs[r].state
              post == runs'[r].state
              map == ReturnedMap(tool, pre.data)
          IN  (Len(log) > n /\ log[n + 1].action = "completed")
                => IF tool = "replace"
                   THEN post = ReturnedState
                   ELSE /\ post.data = [k \in Keys |->
                                          IF map[k] # Absent THEN map[k] ELSE pre.data[k]]
                        /\ post.metadata = pre.metadata]_vars

\* a step has returned a state object and the next one a map without the
\* key the object had: the key is kept, and so is metadata
C27_Witness ==
    \E r \in RunIds :
        /\ Log(r) # <<>>
        /\ LastEntry(r).action = "completed"
        /\ LastEntry(r).node = "B"
        /\ runs[r].state = [data |-> [count |-> PyInt(1), flag |-> PyInt(1)], metadata |-> 1]

\* C28: when the tool of a declared node is not in the registry,
\* build_from_definition raises, no graph is returned, and create_graph
\* leaves the storage as it was.
C28_UnknownToolSavesNothing ==
    [][(/\ call'.n = call.n + 1
        /\ call'.op = "create_graph"
        /\ \E i \in 1..Len(definition'.nodes) : definition'.nodes[i].tool \notin ToolNames)
          => /\ call'.raised
             /\ graphs' = graphs]_vars

\* a request whose second node names an unknown tool has failed, with
\* graphs of earlier requests in the storage
C28_Witness ==
    /\ call.op = "create_graph"
    /\ call.raised
    /\ definition.entry_point = "A"
    /\ definition.nodes[1].tool \in ToolNames
    /\ definition.nodes[2].tool \notin ToolNames
    /\ Len(graphs) >= 2

\* the node a run started last has completed its step
StepCompleted(r) ==
    LET log == Log(r)
        S == {i \in 1..Len(log) : log[i].action = "started"}
    IN  /\ S # {}
        /\ Max(S) < Len(log)
        /\ log[Max(S) + 1].action = "completed"

\* the node has exactly one successor, declared without a condition
OnePlainSuccessor(d, name) ==
    /\ Cardinality(DeclaredTargets(d, name)) = 1
    /\ DeclaredGuards(d, name) = <<>>

DeclaredBetween(d, name, to) ==
    SelectSeq(DeclaredFrom(d.edges, name), LAMBDA e : e.to_node = to)

\* C30: a run moves to a successor along a guarded edge only when the guard
\* holds of the state: when every edge declared from the node just
\* executed to the next node has a condition, one of these conditions is
\* true of the state.
C30_GuardedEdgeOnlyWhenTrue ==
    \A r \in RunIds :
        LET X == runs[r].current_node
            T == current_node_name[r]
            E == DeclaredBetween(definition, X, T)
        IN  (/\ definition # NoDefinition
             /\ Resolved(r)
             /\ T # NoName
             /\ E # <<>>
             /\ \A i \in 1..Len(E) : E[i].condition # NoCond)
                => \E i \in 1..Len(E) : Holds(E[i].condition, runs[r].state.data)

\* C31: whenever no execute_graph call is in progress on the graph (none
\* has started yet, or every call made so far has returned), the iteration
\* counter of every Loop node of the graph is 0.
C31_CountersZeroBetweenRuns ==
    (\A r \in RunIds : pc[r] \in {"pending", "done"})
        => \A L \in LoopNodes(definition) : current_iteration[L] = 0

\* the iteration count recorded by a loop_continued or loop_exited entry
RecordedCount(entry) ==
    IF entry.action = "loop_exited" THEN entry.details.iterations
    ELSE entry.details.iteration

\* C32: in a run, every completed entry of a Loop node is directly followed
\* by exactly one loop_continued or loop_exited entry of the same node,
\* whose recorded iteration count is between 1 and max_iterations; a node
\* without a loop declaration has no loop_continued or loop_exited entry.
C32_LoopEntryFollowsCompleted ==
    \A r \in RunIds :
        LET log == Log(r)
            LoopEntry(i) == log[i].action \in {"loop_continued", "loop_exited"}
        IN  /\ \A i \in 1..Len(log) :
                (log[i].action = "completed" /\ log[i].node \in LoopNodes(definition))
                    => /\ i < Len(log)
                       /\ log[i + 1].node = log[i].node
                       /\ LoopEntry(i + 1)
                       /\ RecordedCount(log[i + 1]) >= 1
                       /\ RecordedCount(log[i + 1])
                            <= LoopDecl(definition, log[i].node).max_iterations
                       /\ (i + 2 <= Len(log)) => ~LoopEntry(i + 2)
            /\ \A i \in 1..Len(log) :
                LoopEntry(i) => log[i].node \in LoopNodes(definition)

\* C33: the started entry of a pass through a Loop node records the number
\* of passes the run has already made through that node (0 on the first
\* pass of every run); the started entry of a node without a loop
\* declaration records 0.
C33_StartedRecordsPassesOfRun ==
    \A r \in RunIds :
        LET log == Log(r)
        IN  \A i \in 1..Len(log) :
                log[i].action = "started"
                    => log[i].details.iteration
                         = IF log[i].node \in LoopNodes(definition)
                           THEN Cardinality({j \in Positions(log, log[i].node, "completed") :
                                                j < i})
                           ELSE 0

\* the names of the declared nodes
DeclaredNames(d) == {d.nodes[i].name : i \in 1..Len(d.nodes)}

\* the nodes of S that a declared edge, guarded or not, leads to from a
\* node of T
StepWithin(d, S, T) ==
    {d.edges[i].to_node : i \in {j \in 1..Len(d.edges) : d.edges[j].from_node \in T}} \cap S

\* the nodes reached from T along one to fuel declared edges through S
RECURSIVE ReachWithin(_, _, _, _)
ReachWithin(d, S, T, fuel) ==
    IF fuel = 0 THEN {}
    ELSE StepWithin(d, S, T) \cup ReachWithin(d, S, StepWithin(d, S, T), fuel - 1)

\* every cycle of declared edges passes through a node with a loop
\* declaration: the nodes without one lie on no cycle among themselves
EveryCycleThroughLoop(d) ==
    LET S == DeclaredNames(d) \ LoopNodes(d)
    IN  \A n \in S : n \notin ReachWithin(d, S, {n}, Cardinality(S))

\* C34: a run executed alone on a graph in which every cycle passes through
\* a node with a loop declaration reaches a terminal status (completed or
\* failed) and returns, each step function returning or raising.
C34_LoopGuardedRunTerminates ==
    <>(EveryCycleThroughLoop(definition)
          => (pc[1] = "done" /\ runs[1].status \in {"completed", "failed"}))

\* a run has ended on a graph whose cycle A -> B -> A passes through the
\* Loop node B, after two passes through each of the two nodes
C34_Witness ==
    /\ EveryCycleThroughLoop(definition)
    /\ "A" \in ReachWithin(definition, DeclaredNames(definition), {"A"}, 2)
    /\ LoopNodes(definition) = {"B"}
    /\ pc[1] = "done"
    /\ runs[1].status = "completed"
    /\ Cardinality(Positions(Log(1), "B", "completed")) = 2
    /\ Cardinality(Positions(Log(1), "A", "completed")) = 2

\* C35: in a run of a graph that build_from_definition returned, the node
\* name the engine holds at each turn of its loop (the entry point, then
\* each next node it chose) is the name of a node of the graph, and the
\* run never fails with node-not-found.
C35_ResolvedNamesAreNodes ==
    \A r \in RunIds :
        /\ (pc[r] \in {"top", "exec", "sleep"} /\ current_node_name[r] # NoName)
              => /\ current_node_name[r] \in DOMAIN graph.nodes
                 /\ current_node_name[r] \in DeclaredNames(definition)
        /\ raised[r].message # "Node not found in graph"
        /\ \A i \in 1..Len(Log(r)) : Log(r)[i].node \in DeclaredNames(definition)

\* a run has ended after resolving the entry point A and then B, chosen
\* along a guarded edge, on a graph built from a definition
C35_Witness ==
    \E r \in RunIds :
        /\ pc[r] = "done"
        /\ runs[r].status = "completed"
        /\ Positions(Log(r), "A", "started") # {}
        /\ Positions(Log(r), "B", "started") # {}
        /\ DeclaredGuards(definition, "A") # <<>>

\* C36: in every state of a run, started_at is set exactly when the status
\* is not pending, completed_at exactly when the status is completed or
\* failed, error exactly when the status is failed, and the log has an
\* error entry exactly when the status is failed: then it has one, the last
\* entry of the log.
C36_RunFieldsMatchStatus ==
    \A r \in RunIds :
        LET run == runs[r]
            errors == {i \in 1..Len(Log(r)) : Log(r)[i].action = "error"}
        IN  /\ run.started_at <=> run.status # "pending"
            /\ run.completed_at <=> run.status \in {"completed", "failed"}
            /\ (run.error # "") <=> run.status = "failed"
            /\ (errors # {}) <=> run.status = "failed"
            /\ run.status = "failed" => errors = {Len(Log(r))}

\* a run has failed after two node executions, its error entry the fifth
\* and last of its log, and the run after it has completed
C36_Witness ==
    /\ runs[1].status = "failed"
    /\ runs[1].error # ""
    /\ Len(Log(1)) = 5
    /\ LastEntry(1).action = "error"
    /\ runs[2].status = "completed"
    /\ runs[2].completed_at
    /\ runs[2].error = ""

\* the execute_graph call of run r has started and has not returned
InProgress(r) == pc[r] \in {"top", "exec", "sleep"}

GuardTable(g, name) ==
    IF name \in DOMAIN g.conditional_edges THEN g.conditional_edges[name] ELSE <<>>

\* the elements of a sequence are distinct
Distinct(seq) == \A i, j \in 1..Len(seq) : seq[i] = seq[j] => i = j

\* C38: an add_edge(from, to) for a target already in the successor list
\* of from leaves that list as it is, and one for a new target appends it,
\* so the list holds distinct targets in the order they were first added;
\* an add_edge with a condition for a target that already has a guard
\* replaces that guard where it stands and leaves the other guards and
\* their order alone.
C38_RepeatedEdgeKeepsOrder ==
    [][(call'.n = call.n + 1 /\ call'.op = "add_edge" /\ ~call'.raised) =>
        LET from_node == call'.name
            to_node == call'.to
            old == graph.edges[from_node]
            guards == GuardTable(graph, from_node)
            guards_after == GuardTable(graph', from_node)
        IN  /\ graph'.edges[from_node]
                  = IF InSeq(to_node, old) THEN old ELSE Append(old, to_node)
            /\ \A x \in DOMAIN graph'.edges : Distinct(graph'.edges[x])
            /\ \A x \in DOMAIN graph.edges \ {from_node} : graph'.edges[x] = graph.edges[x]
            /\ (call'.condition # NoCond /\ \E i \in 1..Len(guards) : guards[i].to = to_node)
                  => /\ Len(guards_after) = Len(guards)
                     /\ \A i \in 1..Len(guards) :
                          /\ guards_after[i].to = guards[i].to
                          /\ guards_after[i].def.condition
                                = IF guards[i].to = to_node THEN call'.condition
                                  ELSE guards[i].def.condition]_vars

\* add_edge(A, A) has returned a second time, with a condition that is
\* now the guard of A, still standing before the guard of B; the
\* successor list of A is still A, B
C38_Witness ==
    /\ call.op = "add_edge"
    /\ ~call.raised
    /\ call.name = "A"
    /\ call.to = "A"
    /\ call.condition = GuardFlagIn
    /\ "A" \in DOMAIN graph.nodes
    /\ graph.edges["A"] = <<"A", "B">>
    /\ Len(GuardTable(graph, "A")) = 2
    /\ GuardTable(graph, "A")[1].to = "A"
    /\ GuardTable(graph, "A")[1].def.condition = GuardFlagIn
    /\ GuardTable(graph, "A")[2].to = "B"
    /\ call.n = 5

\* the elements of a sequence
Elements(seq) == {seq[i] : i \in 1..Len(seq)}

\* C39: after any calls of save_graph, delete_graph, save_run, update_run
\* and delete_run, list_runs(graph_id) holds exactly the stored runs whose
\* graph_id is the given one, each once, and list_runs() holds every stored
\* run.
C39_ListRunsMatchesStored ==
    /\ \A graph_id \in StoreGraphIds :
          /\ Elements(list_runs(storage, graph_id))
                = {run \in Elements(storage.runs) : run.graph_id = graph_id}
          /\ Distinct(list_runs(storage, graph_id))
    /\ Elements(list_runs(storage, NoName)) = Elements(storage.runs)

====
